---- MODULE Spec2Model ----
(***************************************************************************)
(* A model of the lumera-ica-client command line tool.                     *)
(*                                                                         *)
(* One behaviour is a sequence of command invocations (upload, download,   *)
(* action approve, action status).  Each invocation walks through the      *)
(* RunE handler of its command, one blocking call per step; pc is the      *)
(* call the handler is blocked in.  The controller chain keeps its         *)
(* delegated-account registry between invocations; every other variable   *)
(* is process-local and is reset when the next invocation starts.          *)
(***************************************************************************)
EXTENDS Integers, Sequences, FiniteSets, TLC

\* ------------------------------------------------------------------ bounds

\* Number of command invocations in one behaviour.
MaxRuns == 2

\* Number of plain required fields a configuration file may leave blank.
MaxBlank == 1

\* ------------------------------------------------------------------ values

Commands == {"upload", "download", "approve", "status"}

\* strings.TrimSpace on the strings a flag or a positional may hold.
TrimSpace(s) ==
    CASE s = " " -> ""
      [] s = " a1 " -> "a1"
      [] s = " icaX " -> "icaX"
      [] s = " Warning " -> "Warning"
      [] s = " File " -> "File"
      [] s = "/pw " -> "/pw"
      [] s = " 0.025ulume " -> "0.025ulume"
      [] s = " \n" -> ""
      [] s = "secret\n" -> "secret"
      [] OTHER -> s

\* Faulty variant of ToLower: the case is kept.
ToLowerKeepCase(s) == s

\* strings.ToLower on the strings a configuration field may hold.
ToLower(s) ==
    CASE s = "Warning" -> "warning"
      [] s = "File" -> "file"
      [] OTHER -> s

\* The argument lists cobra may hand over: zero, one or two positionals.
ArgLists == {<<>>, <<" ">>, <<"a1">>, <<" a1 ">>, <<"a1", "a1">>}

\* Addresses.  OwnerAddr is the controller-chain owner, ICAAddr the
\* delegated account of (owner, connection), RegularAddr a host account
\* that is not a delegated account, OverrideAddr a value of --ica-address.
OwnerAddr == "owner1"
ICAAddr == "ica1"
RegularAddr == "lumera1"
OverrideAddr == "icaX"

\* Action states owned by the host ledger (sdk-go types.ActionState).
ActionStatePending == "PENDING"
ActionStates == {ActionStatePending, "PROCESSING", "DONE", "APPROVED", "EXPIRED"}

\* Action metadata as the commands inspect it: a non-nil *CascadeMetadata,
\* a nil *CascadeMetadata, or metadata of another type.
MetaKinds == {"cascade", "nilcascade", "other"}

\* The action records GetAction may return for a queried id.
Actions ==
    [ID : {"a1"}, State : ActionStates, Creator : {ICAAddr, RegularAddr},
     MetaKind : MetaKinds, Public : BOOLEAN, FileName : {"f.bin"}]

NoAction ==
    [ID |-> "", State |-> "", Creator |-> "", MetaKind |-> "other",
     Public |-> FALSE, FileName |-> ""]

NoPayload == [status |-> ""]

\* A host-chain message: a MsgRequestAction or a MsgApproveAction.
NoMsg == [kind |-> "", creator |-> "", actionID |-> "", public |-> FALSE]

NoRes == [ActionID |-> "", TxHash |-> "", TaskID |-> "", OutputPath |-> ""]

VARIABLES
    run,            \* number of the current invocation
    cmd,            \* the subcommand being run
    pc,             \* the handler's position
    flagValue,      \* the positional's flag form (--file, --action-id)
    args,           \* positional arguments
    actionIDFlag,   \* upload's --action-id
    public,         \* upload's --public
    icaAddressFlag, \* approve's --ica-address as given
    icaAddress,     \* approve: the address in use (the flag, then the query's)
    argValue,       \* what resolveOptionalArg returned
    ctxSet,         \* commandContext has run
    ctxDone,        \* the command deadline has expired
    expiredAt,      \* the handler's position when the deadline expired
    opened,         \* clients opened by this invocation
    closed,         \* clients closed by this invocation
    krOpens,        \* keystores opened by this invocation
    krPassed,       \* keystore handles handed to the client constructors
    icaAddr,        \* upload: the address EnsureICAAddress returned
    action,         \* the record GetAction returned
    res,            \* the result of Cascade.Upload / Cascade.Download
    fileName,       \* download: the recovered file name
    payload,        \* the record handed to writeJSON
    stdout,         \* records written to the output stream
    stderr,         \* diagnostics written to the error stream
    exitCode,       \* -1 while running, then 0 or 1
    log,            \* collaborator calls of this invocation, in order
    failed,         \* steps of this invocation that ended in an error
    icaAccount,     \* controller chain: the delegated account, "" if none
    regPending,     \* controller chain: a registration is in flight
    regTxCount,     \* controller chain: registration transactions accepted
    ensureReturned, \* the address the last successful EnsureICAAddress returned
    msg,            \* the host-chain message built by this invocation
    meshSigner,     \* the signer handed to the mesh upload or download
    sendResult,     \* how the delegated-account send of this invocation ended
    queried,        \* EnsureICAAddress: the account the chain held when queried
    preflight,      \* EnsureICAAddress: the connection and client status found
    prevReturned,   \* EnsureICAAddress: ensureReturned when the call began
    enrich,         \* download: how the file-name lookup ended
    config,         \* app.loadConfig: the configuration file and its environment
    loaded,         \* app.loadConfig: what LoadConfig returned
    krParams,       \* what newControllerKeyring hands to the keystore
    confPc,         \* app.loadConfig: how far the loading has got
    validated,      \* the configuration before and after Validate, and its error
    fileReads,      \* the files read since the loading began, in order
    keystore,       \* the keys the keystore backend holds, by name
    built,          \* which definition of NewCascadeClient the build holds
    ksPc,           \* NewCascadeClient: its position
    ksLog,          \* NewCascadeClient: the calls it has made, in order
    ksErr,          \* NewCascadeClient: the error it returned, "" for none
    ownerAddress,   \* NewCascadeClient: the derived controller owner address
    lumeraAddress,  \* NewCascadeClient: the derived host address
    derived,        \* every address derivation so far: key name, prefix, address
    builds,         \* how many times the client has been constructed
    rdPass,         \* the passphrase passphraseReader was given, as bytes
    rdNil,          \* the io.Reader is nil: there is no repeatReader
    rdData,         \* repeatReader.data, <<>> when there is no reader
    rdPos,          \* repeatReader.pos
    rdOut,          \* every byte the reader has delivered, in order
    rdLast,         \* the last Read: buffer length, bytes returned, error
    encPayload,     \* writeJSON: the payload handed to Encode, by key
    encOut,         \* writeJSON: the bytes Encode wrote to stdout
    decoded,        \* what a JSON reader makes of those bytes
    jsonPc,         \* how far the round trip has got
    clock,          \* the time, in ticks of five minutes
    parent,         \* cmd.Context(): the deadline it carries, 0 for none
    cctx,           \* the context commandContext returned
    under,          \* for each blocking call made: the call and the context it got
    todo,           \* the blocking calls the handler has still to make
    dirs,           \* the output directories that exist on disk
    gasPrices,      \* NewICAController: cfg.Controller.GasPrices
    nilArg,         \* NewICAController: the argument that is nil, "" for none
    icaPc,          \* NewICAController: its position
    icaErr,         \* NewICAController: the error it returned, "" for none
    fee,            \* the gas price and fee denomination of the controller config
    innerLog,       \* the calls that reached the sdk-go controller, in order
    rets            \* the calls made on Controller values, with what they returned

inputs == <<flagValue, args, actionIDFlag, public, icaAddressFlag>>
clients == <<opened, closed, krOpens, krPassed>>
streams == <<stdout, stderr, exitCode>>
chain == <<icaAccount, regPending, regTxCount, ensureReturned>>
sent == <<msg, meshSigner, sendResult>>
hist == <<queried, preflight, prevReturned, enrich>>
conf == <<config, loaded, krParams, confPc, validated, fileReads>>
keys ==
    <<keystore, built, ksPc, ksLog, ksErr, ownerAddress, lumeraAddress, derived,
      builds>>
reader == <<rdPass, rdNil, rdData, rdPos, rdOut, rdLast>>
json == <<encPayload, encOut, decoded, jsonPc>>
cx == <<clock, parent, cctx, under, todo>>
wrapper == <<gasPrices, nilArg, icaPc, icaErr, fee, innerLog, rets>>
more == <<cx, dirs, wrapper>>
lib == <<keys, reader, json, more>>

vars ==
    <<run, cmd, pc, flagValue, args, actionIDFlag, public, icaAddressFlag,
      icaAddress, argValue, ctxSet, ctxDone, expiredAt, opened, closed, krOpens,
      krPassed, icaAddr,
      action, res, fileName, payload, stdout, stderr, exitCode, log, failed,
      icaAccount, regPending, regTxCount, ensureReturned, msg, meshSigner,
      sendResult, queried, preflight, prevReturned, enrich, config, loaded,
      krParams, confPc, validated, fileReads, keystore, built, ksPc, ksLog, ksErr, ownerAddress,
      lumeraAddress, derived, builds, rdPass, rdNil, rdData, rdPos, rdOut, rdLast,
      encPayload, encOut, decoded, jsonPc, clock, parent, cctx, under, todo,
      dirs, gasPrices, nilArg, icaPc, icaErr, fee, innerLog, rets>>

\* A diagnostic line: the class of the error and, for a state mismatch,
\* the two states it names.
Diag(kind, actual, expected) ==
    [kind |-> kind, actual |-> actual, expected |-> expected]

\* The values the flags of command c may hold.
FlagValues == {"", " ", "a1"}
ActionIDFlags(c) == IF c = "upload" THEN {"", " ", "a1"} ELSE {""}
Publics(c) == IF c = "upload" THEN BOOLEAN ELSE {FALSE}
IcaAddressFlags(c) ==
    IF c = "approve" THEN {"", " ", OverrideAddr, " icaX "} ELSE {""}

\* ------------------------------------------------------- configuration

\* The required fields, in the order Validate checks them.
RequiredFields ==
    <<"lumera.chain_id", "lumera.grpc_endpoint", "lumera.rpc_endpoint",
      "lumera.key_name", "controller.chain_id", "controller.grpc_endpoint",
      "controller.rpc_endpoint", "controller.key_name",
      "controller.keyring_backend", "controller.account_hrp",
      "controller.connection_id">>

\* The required fields Validate only checks for being set.
PlainFields ==
    {RequiredFields[i] : i \in 1..Len(RequiredFields)} \ {"controller.keyring_backend"}

\* The values the other fields are drawn from.
LogLevels == {"", "debug", "info", "warn", "error", "warning", " Warning ", "trace"}
Backends == {"", "os", "file", "test", " File ", "foo"}
KeyringDirs == {"", "/k", "~/k"}
Homes == {"", "/h"}
PassPlains == {"", " ", "p"}
PassFiles == {"", "/ok", "/missing", "/empty", "/pw "}

\* os.UserHomeDir, when it succeeds.
UserHome == "/home/u"

\* The plain required fields with at most k of them blank.
RECURSIVE Blanked(_)
Blanked(k) ==
    IF k = 0
    THEN {[f \in PlainFields |-> "v"]}
    ELSE LET prev == Blanked(k - 1)
         IN prev \cup {[c EXCEPT ![f] = v] : c \in prev, f \in PlainFields, v \in {"", " "}}

\* A decoded configuration file: the plain fields c and the other fields.
MakeConfig(c, l, b, d, h, pp, pf) ==
    c @@ [f \in {"lumera.log_level", "controller.keyring_backend",
                 "controller.keyring_dir", "controller.home",
                 "controller.keyring_passphrase_plain",
                 "controller.keyring_passphrase_file", "controller.binary"} |->
            CASE f = "lumera.log_level" -> l
              [] f = "controller.binary" -> ""
              [] f = "controller.keyring_backend" -> b
              [] f = "controller.keyring_dir" -> d
              [] f = "controller.home" -> h
              [] f = "controller.keyring_passphrase_plain" -> pp
              [] OTHER -> pf]

\* A configuration that loads.
DefaultConfig == MakeConfig([f \in PlainFields |-> "v"], "info", "test", "/k", "/h", "", "")

NoErr == [kind |-> "", field |-> ""]
Err(kind, field) == [kind |-> kind, field |-> field]

\* os.ReadFile on the passphrase file: its contents, or "error".
ReadFile(path) ==
    CASE path = "/ok" -> "secret\n"
      [] path = "/pw " -> "secret\n"
      [] path = "/empty" -> " \n"
      [] OTHER -> "error"

\* expandHome: "~" and "~/..." are resolved against the user's home
\* directory; anything else is returned as it is.
expandHome(value, homeErr) ==
    CASE value = "~" ->
            IF homeErr THEN [value |-> "", err |-> TRUE]
            ELSE [value |-> UserHome, err |-> FALSE]
      [] value = "~/k" ->
            IF homeErr THEN [value |-> "", err |-> TRUE]
            ELSE [value |-> UserHome \o "/k", err |-> FALSE]
      [] OTHER -> [value |-> value, err |-> FALSE]

\* Config.ExpandPaths: home, keyring_dir and keyring_passphrase_file, in
\* that order; the first failure is returned.
ExpandPaths(c, homeErr) ==
    LET h == expandHome(c["controller.home"], homeErr)
        d == expandHome(c["controller.keyring_dir"], homeErr)
        p == expandHome(c["controller.keyring_passphrase_file"], homeErr)
    IN  IF h.err THEN [cfg |-> c, err |-> Err("expand", "controller.home")]
        ELSE IF d.err THEN [cfg |-> c, err |-> Err("expand", "controller.keyring_dir")]
        ELSE IF p.err
        THEN [cfg |-> c, err |-> Err("expand", "controller.keyring_passphrase_file")]
        ELSE [cfg |-> [c EXCEPT !["controller.home"] = h.value,
                                !["controller.keyring_dir"] = d.value,
                                !["controller.keyring_passphrase_file"] = p.value],
              err |-> NoErr]

\* Faulty variant of normalizeLogLevel: "warning" is stored as it is.
normalizeLogLevelNoAlias(value) ==
    LET val == ToLower(TrimSpace(value)) IN
    IF val = "" THEN [level |-> "info", err |-> FALSE]
    ELSE IF val \in {"debug", "info", "warn", "error", "warning"}
    THEN [level |-> val, err |-> FALSE]
    ELSE [level |-> "", err |-> TRUE]

\* normalizeLogLevel: the level and whether the value is rejected.
normalizeLogLevel(value) ==
    LET val == ToLower(TrimSpace(value)) IN
    IF val = "" THEN [level |-> "info", err |-> FALSE]
    ELSE IF val \in {"debug", "info", "warn", "error"} THEN [level |-> val, err |-> FALSE]
    ELSE IF val = "warning" THEN [level |-> "warn", err |-> FALSE]
    ELSE [level |-> "", err |-> TRUE]

\* Faulty variant of the required-field check: the value is not trimmed.
BlankRequiredNoTrim(c) ==
    {i \in 1..Len(RequiredFields) : c[RequiredFields[i]] = ""}

\* The required fields of c that are blank after trimming.
BlankRequired(c) ==
    {i \in 1..Len(RequiredFields) : TrimSpace(c[RequiredFields[i]]) = ""}

\* The first required field that is blank, in the order of the checks.
FirstBlank(c) ==
    RequiredFields[CHOOSE i \in BlankRequired(c) : \A j \in BlankRequired(c) : i <= j]

\* Faulty variant of the passphrase check: two sources are accepted.
BothPassphrasesNever(c) == FALSE

\* Both passphrase sources are set.
BothPassphrases(c) ==
    /\ TrimSpace(c["controller.keyring_passphrase_plain"]) # ""
    /\ TrimSpace(c["controller.keyring_passphrase_file"]) # ""

\* Faulty variant of the passphrase file check: the file is not looked at.
PassphraseFileErrorLazy(pf) == ""

\* Validate's check of the passphrase file, when one is set: it is read,
\* and must be readable and not blank.  The error class, "" for none.
PassphraseFileError(pf) ==
    IF TrimSpace(pf) = "" THEN ""
    ELSE IF ReadFile(pf) = "error" THEN "read"
    ELSE IF TrimSpace(ReadFile(pf)) = "" THEN "empty"
    ELSE ""

\* Config.Validate: the checks in their order; the log level and the
\* keyring backend are stored normalized.
Validate(c) ==
    LET ll == normalizeLogLevel(c["lumera.log_level"])
        backend == ToLower(TrimSpace(c["controller.keyring_backend"]))
        pf == c["controller.keyring_passphrase_file"]
        c1 == [c EXCEPT !["lumera.log_level"] = ll.level]
        c2 == [c1 EXCEPT !["controller.keyring_backend"] = backend]
    IN  IF ll.err THEN [cfg |-> c, err |-> Err("invalid", "lumera.log_level")]
        ELSE IF BlankRequired(c) # {}
        THEN [cfg |-> c1, err |-> Err("required", FirstBlank(c))]
        ELSE IF BothPassphrases(c)
        THEN [cfg |-> c1, err |-> Err("exclusive", "controller.keyring_passphrase_plain")]
        ELSE IF backend \notin {"os", "file", "test"}
        THEN [cfg |-> c1, err |-> Err("invalid", "controller.keyring_backend")]
        ELSE IF backend = "file" /\ TrimSpace(c["controller.keyring_dir"]) = ""
        THEN [cfg |-> c2, err |-> Err("required", "controller.keyring_dir")]
        ELSE IF PassphraseFileError(pf) # ""
        THEN [cfg |-> c2, err |-> Err(PassphraseFileError(pf),
                                      "controller.keyring_passphrase_file")]
        ELSE [cfg |-> c2, err |-> NoErr]

\* The file Validate reads: the passphrase file, when it is set and every
\* check before the read has passed.
ValidateReads(c) ==
    IF /\ TrimSpace(c["controller.keyring_passphrase_file"]) # ""
       /\ Validate(c).err.field \in {"", "controller.keyring_passphrase_file"}
    THEN <<c["controller.keyring_passphrase_file"]>>
    ELSE <<>>

\* The path of the configuration file, after filepath.Clean.
ConfigPath == "config.toml"

NoValidate == [before |-> <<>>, after |-> <<>>, err |-> NoErr]

\* The call of Validate that LoadConfig makes on the file in, if it gets
\* that far: the receiver before and after the call, and the error.
ValidateCall(in) ==
    LET e == ExpandPaths(in.fields, in.homeErr) IN
    IF ~in.decodes \/ e.err # NoErr THEN NoValidate
    ELSE [before |-> e.cfg, after |-> Validate(e.cfg).cfg, err |-> Validate(e.cfg).err]

\* The files LoadConfig reads: the configuration file, then what Validate reads.
LoadReads(in) ==
    LET e == ExpandPaths(in.fields, in.homeErr) IN
    IF ~in.decodes \/ e.err # NoErr THEN <<ConfigPath>>
    ELSE <<ConfigPath>> \o ValidateReads(e.cfg)

\* The file resolvePassphrase reads: the passphrase file, when it is the
\* one source that is set.
ResolveReads(plain, filePath) ==
    IF TrimSpace(plain) = "" /\ TrimSpace(filePath) # ""
    THEN <<TrimSpace(filePath)>>
    ELSE <<>>

\* client.LoadConfig on the file in: decode, ExpandPaths, Validate.
LoadConfigFile(in) ==
    LET e == ExpandPaths(in.fields, in.homeErr)
        r == IF ~in.decodes THEN [cfg |-> in.fields, err |-> Err("decode", "")]
             ELSE IF e.err # NoErr THEN e
             ELSE Validate(e.cfg)
    IN  IF r.err # NoErr THEN [cfg |-> <<>>, err |-> r.err]
        ELSE [cfg |-> r.cfg, err |-> NoErr]

\* resolvePassphrase: the passphrase ("" for a prompt) and whether it fails.
resolvePassphrase(plain, filePath) ==
    LET p == TrimSpace(plain)
        f == TrimSpace(filePath)
    IN  IF p # "" /\ f # "" THEN [pass |-> "", err |-> TRUE]
        ELSE IF p # "" THEN [pass |-> p, err |-> FALSE]
        ELSE IF f = "" THEN [pass |-> "", err |-> FALSE]
        ELSE IF ReadFile(f) = "error" THEN [pass |-> "", err |-> TRUE]
        ELSE IF TrimSpace(ReadFile(f)) = "" THEN [pass |-> "", err |-> TRUE]
        ELSE [pass |-> TrimSpace(ReadFile(f)), err |-> FALSE]

\* Faulty variant of the keystore directory: no fallback to home.
KeyringDirNoFallback(c) == TrimSpace(c["controller.keyring_dir"])

\* The directory newControllerKeyring opens the keystore in: keyring_dir,
\* or for the test backend with no keyring_dir the home setting.
KeyringDir(c) ==
    LET dir == TrimSpace(c["controller.keyring_dir"]) IN
    IF dir = "" /\ ToLower(c["controller.keyring_backend"]) = "test"
    THEN TrimSpace(c["controller.home"])
    ELSE dir

\* filepath.Base on the values controller.binary may hold.
Base(path) ==
    CASE path = "" -> "."
      [] path = "/usr/bin/osmosisd" -> "osmosisd"
      [] path = "bin/simd/" -> "simd"
      [] OTHER -> path

\* Faulty variant of keyringAppName: the binary's path is used as it is.
keyringAppNameNoBase(c) ==
    IF c["controller.binary"] # "" THEN c["controller.binary"]
    ELSE IF c["controller.chain_id"] # "" THEN c["controller.chain_id"]
    ELSE "lumera"

\* keyringAppName: the application name of the keystore.
keyringAppName(c) ==
    IF c["controller.binary"] # "" THEN Base(c["controller.binary"])
    ELSE IF c["controller.chain_id"] # "" THEN c["controller.chain_id"]
    ELSE "lumera"

\* newControllerKeyring: the parameters handed to sdkcrypto.NewKeyring.
newControllerKeyring(c) ==
    LET pass == resolvePassphrase(c["controller.keyring_passphrase_plain"],
                                  c["controller.keyring_passphrase_file"])
    IN  IF pass.err
        THEN [err |-> TRUE, appName |-> "", backend |-> "", dir |-> "", pass |-> ""]
        ELSE [err |-> FALSE, appName |-> keyringAppName(c),
              backend |-> c["controller.keyring_backend"],
              dir |-> KeyringDir(c), pass |-> pass.pass]

NoLoad == [cfg |-> <<>>, err |-> NoErr]
NoParams == [err |-> FALSE, appName |-> "", backend |-> "", dir |-> "", pass |-> ""]

\* ------------------------------------------------------- keystore

\* The key names a configuration may refer to, and the signing algorithms
\* of the keys a keystore may hold.
KeyNames == {"k1", "k2"}
Algos == {"secp256k1", "eth_secp256k1"}

\* A keystore: for every name the key it holds, or "absent".
Keystores == [KeyNames -> {"absent"} \cup Algos]

\* The values of key_type, controller.binary, controller.chain_id and
\* controller.account_hrp that the construction is run with.
KeyTypes == {"cosmos", "evm", "bad"}
Binaries == {"", "osmosisd", "/usr/bin/osmosisd", "bin/simd/", "/", " "}
ChainIDs == {"", "osmosis-1", " "}
HRPs == {"osmo", "lumera"}

\* The two definitions of NewCascadeClient the source file holds.
Definitions == {"validating", "plain"}

\* ParseKeyType: the algorithm a configured key type names, "" if none.
ParseKeyType(t) ==
    CASE t = "cosmos" -> "secp256k1"
      [] t = "evm" -> "eth_secp256k1"
      [] OTHER -> ""

\* validateKeyType: the error it returns, "" for none.
validateKeyType(kr, keyName, configuredType) ==
    IF ParseKeyType(configuredType) = "" THEN "keytype"
    ELSE IF kr[keyName] = "absent" THEN "notfound"
    ELSE IF kr[keyName] # ParseKeyType(configuredType) THEN "mismatch"
    ELSE ""

NoAddr == [hrp |-> "", data |-> ""]

\* The address bytes of the key stored under a name: a hash of its public
\* key, which differs from key to key.
AddressBytes(keyName) == "hash(" \o keyName \o ")"

\* Faulty variant of the derivation: the prefix is left out.
AddressFromKeyNoPrefix(kr, keyName, hrp) ==
    IF kr[keyName] = "absent" THEN [addr |-> NoAddr, err |-> TRUE]
    ELSE [addr |-> [hrp |-> "", data |-> AddressBytes(keyName)], err |-> FALSE]

\* sdkcrypto.AddressFromKey: the bech32 address of the named key under a
\* prefix, or an error when the keystore holds no such key.
AddressFromKey(kr, keyName, hrp) ==
    IF kr[keyName] = "absent" THEN [addr |-> NoAddr, err |-> TRUE]
    ELSE [addr |-> [hrp |-> hrp, data |-> AddressBytes(keyName)], err |-> FALSE]

\* A configuration with the fields the construction reads.
KeyConfig(bin, chainID, hrp, hostKey, ctlType, hostType) ==
    [f \in DOMAIN DefaultConfig \cup {"controller.key_type", "lumera.key_type"} |->
        CASE f = "controller.binary" -> bin
          [] f = "controller.chain_id" -> chainID
          [] f = "controller.account_hrp" -> hrp
          [] f = "controller.key_name" -> "k1"
          [] f = "lumera.key_name" -> hostKey
          [] f = "controller.key_type" -> ctlType
          [] f = "lumera.key_type" -> hostType
          [] OTHER -> DefaultConfig[f]]

\* The passphrases a reader is built for: byte strings without a newline.
RECURSIVE BytesUpTo(_)
BytesUpTo(n) ==
    IF n = 0 THEN {<<>>}
    ELSE BytesUpTo(n - 1) \cup
         {Append(b, c) : b \in {x \in BytesUpTo(n - 1) : Len(x) = n - 1}, c \in {"a", "b"}}

NoRead == [k |-> 0, n |-> 0, err |-> ""]

\* passphraseReader: no reader for the empty passphrase, otherwise a
\* repeatReader over the passphrase followed by a newline.
passphraseReader(passphrase) ==
    IF passphrase = <<>> THEN <<>> ELSE passphrase \o <<"\n">>

\* Faulty variant of Read: every call starts at the first byte again.
ReadFromRewind(pos) == 0

\* The position a call of Read starts at: where the last one stopped.
ReadFrom(pos) == pos

\* The loop of repeatReader.Read on a buffer of length k: n bytes are
\* copied so far, out is what was copied; the position wraps to 0 when the
\* data is used up.
RECURSIVE ReadLoop(_, _, _, _, _)
ReadLoop(data, pos, k, n, out) ==
    IF n >= k THEN [pos |-> pos, n |-> n, out |-> out]
    ELSE LET p0 == IF Len(data) - pos = 0 THEN 0 ELSE pos
             remaining == Len(data) - p0
             chunk == IF remaining > k - n THEN k - n ELSE remaining
         IN  ReadLoop(data, p0 + chunk, k, n + chunk,
                      out \o SubSeq(data, p0 + 1, p0 + chunk))

\* Faulty variant of Read: a reader without data claims to have filled the
\* buffer.
ReadNoEOF(data, pos, k) ==
    IF Len(data) = 0
    THEN [pos |-> pos, n |-> k, out |-> <<>>, err |-> ""]
    ELSE LET r == ReadLoop(data, ReadFrom(pos), k, 0, <<>>)
         IN  [pos |-> r.pos, n |-> r.n, out |-> r.out, err |-> ""]

\* repeatReader.Read on a buffer of length k.
Read(data, pos, k) ==
    IF Len(data) = 0
    THEN [pos |-> pos, n |-> 0, out |-> <<>>, err |-> "EOF"]
    ELSE LET r == ReadLoop(data, ReadFrom(pos), k, 0, <<>>)
         IN  [pos |-> r.pos, n |-> r.n, out |-> r.out, err |-> ""]

\* ------------------------------------------------------------ the JSON output

\* The characters of the modelled texts: a letter, the characters the
\* encoder escapes (quote, backslash, newline, less-than) and one
\* character outside ASCII, written by its code point.
JsonChars == {"a", "\"", "\\", "\n", "<", "U+00E9"}

\* The texts of at most n characters.
RECURSIVE Texts(_)
Texts(n) ==
    IF n = 0 THEN {<<>>}
    ELSE Texts(n - 1) \cup
         {Append(b, c) : b \in {x \in Texts(n - 1) : Len(x) = n - 1}, c \in JsonChars}

\* The keys of the payloads, in the byte order the encoder sorts a map's
\* keys into, each with its characters.
KeyOrder ==
    <<"action_id", "file", "ica_address", "ica_owner_address", "is_public",
      "status", "task_id", "tx_hash">>

KeyChars(k) ==
    CASE k = "action_id" -> <<"a","c","t","i","o","n","_","i","d">>
      [] k = "file" -> <<"f","i","l","e">>
      [] k = "ica_address" -> <<"i","c","a","_","a","d","d","r","e","s","s">>
      [] k = "ica_owner_address" ->
            <<"i","c","a","_","o","w","n","e","r","_","a","d","d","r","e","s","s">>
      [] k = "is_public" -> <<"i","s","_","p","u","b","l","i","c">>
      [] k = "status" -> <<"s","t","a","t","u","s">>
      [] k = "task_id" -> <<"t","a","s","k","_","i","d">>
      [] k = "tx_hash" -> <<"t","x","_","h","a","s","h">>

\* A value of a payload: a string, or a boolean by its literal.
Str(text) == [kind |-> "string", text |-> text]
Bool(b) == [kind |-> "bool", text |-> IF b THEN <<"t","r","u","e">>
                                      ELSE <<"f","a","l","s","e">>]

\* Faulty variant of the escaping: every character is written as it is.
EscapeVerbatim(c) == <<c>>

\* The encoder's escaping of one character of a string: quote, backslash
\* and newline by a backslash sequence, less-than by its code point (HTML
\* escaping is on by default), anything else as it is.
Escape(c) ==
    CASE c = "\"" -> <<"\\", "\"">>
      [] c = "\\" -> <<"\\", "\\">>
      [] c = "\n" -> <<"\\", "n">>
      [] c = "<" -> <<"\\", "u", "0", "0", "3", "c">>
      [] OTHER -> <<c>>

RECURSIVE EscapeAll(_)
EscapeAll(text) ==
    IF text = <<>> THEN <<>> ELSE Escape(Head(text)) \o EscapeAll(Tail(text))

\* A string between quotes, escaped.
Quoted(text) == <<"\"">> \o EscapeAll(text) \o <<"\"">>

EncodeValue(v) == IF v.kind = "string" THEN Quoted(v.text) ELSE v.text

\* The members of the object from the i-th key of the order on: each on a
\* line of its own, indented by two blanks, a comma after all but the last.
RECURSIVE EncodeMembers(_, _, _)
EncodeMembers(p, i, first) ==
    IF i > Len(KeyOrder) THEN <<>>
    ELSE IF KeyOrder[i] \notin DOMAIN p THEN EncodeMembers(p, i + 1, first)
    ELSE (IF first THEN <<>> ELSE <<",">>)
         \o <<"\n", " ", " ">> \o Quoted(KeyChars(KeyOrder[i])) \o <<":", " ">>
         \o EncodeValue(p[KeyOrder[i]]) \o EncodeMembers(p, i + 1, FALSE)

\* enc.Encode after SetIndent("", "  "): the object, then a newline.
Encode(p) ==
    IF DOMAIN p = {} THEN <<"{", "}", "\n">>
    ELSE <<"{">> \o EncodeMembers(p, 1, TRUE) \o <<"\n", "}", "\n">>

\* A JSON reader.  White space between the tokens is skipped.
RECURSIVE SkipSpace(_, _)
SkipSpace(s, i) ==
    IF i <= Len(s) /\ s[i] \in {" ", "\n"} THEN SkipSpace(s, i + 1) ELSE i

NoParse == [ok |-> FALSE, val |-> <<>>, next |-> 0]

\* The character a \uXXXX escape names.
CodePoint(h) ==
    CASE h = <<"0", "0", "3", "c">> -> "<"
      [] h = <<"0", "0", "2", "2">> -> "\""
      [] h = <<"0", "0", "5", "c">> -> "\\"
      [] h = <<"0", "0", "0", "a">> -> "\n"
      [] h = <<"0", "0", "6", "1">> -> "a"
      [] OTHER -> "?"

\* The characters of a string from position i on, up to the closing quote.
\* A raw newline inside a string is not JSON.
RECURSIVE ParseChars(_, _, _)
ParseChars(s, i, acc) ==
    IF i > Len(s) THEN NoParse
    ELSE IF s[i] = "\"" THEN [ok |-> TRUE, val |-> acc, next |-> i + 1]
    ELSE IF s[i] = "\n" THEN NoParse
    ELSE IF s[i] # "\\" THEN ParseChars(s, i + 1, Append(acc, s[i]))
    ELSE IF i + 1 > Len(s) THEN NoParse
    ELSE IF s[i + 1] \in {"\"", "\\", "/"}
         THEN ParseChars(s, i + 2, Append(acc, s[i + 1]))
    ELSE IF s[i + 1] = "n" THEN ParseChars(s, i + 2, Append(acc, "\n"))
    ELSE IF s[i + 1] = "u" /\ i + 5 <= Len(s)
         THEN ParseChars(s, i + 6, Append(acc, CodePoint(SubSeq(s, i + 2, i + 5))))
    ELSE NoParse

ParseString(s, i) ==
    IF i <= Len(s) /\ s[i] = "\"" THEN ParseChars(s, i + 1, <<>>) ELSE NoParse

StartsWith(s, i, w) == i + Len(w) - 1 <= Len(s) /\ SubSeq(s, i, i + Len(w) - 1) = w

\* A value: a string or one of the literals true and false.
ParseValue(s, i) ==
    IF StartsWith(s, i, Bool(TRUE).text)
    THEN [ok |-> TRUE, val |-> Bool(TRUE), next |-> i + 4]
    ELSE IF StartsWith(s, i, Bool(FALSE).text)
    THEN [ok |-> TRUE, val |-> Bool(FALSE), next |-> i + 5]
    ELSE LET r == ParseString(s, i) IN
         IF r.ok THEN [ok |-> TRUE, val |-> Str(r.val), next |-> r.next] ELSE NoParse

NoDecode == [ok |-> FALSE, obj |-> {}]

\* The members of an object from position i on; a key met again replaces
\* the earlier member.
RECURSIVE ParseMembers(_, _, _)
ParseMembers(s, i, obj) ==
    LET k == ParseString(s, SkipSpace(s, i)) IN
    IF ~k.ok THEN NoParse
    ELSE LET c == SkipSpace(s, k.next) IN
         IF c > Len(s) \/ s[c] # ":" THEN NoParse
         ELSE LET v == ParseValue(s, SkipSpace(s, c + 1)) IN
              IF ~v.ok THEN NoParse
              ELSE LET e == SkipSpace(s, v.next)
                       o == {m \in obj : m.key # k.val}
                              \cup {[key |-> k.val, val |-> v.val]}
                   IN  IF e > Len(s) THEN NoParse
                       ELSE IF s[e] = "," THEN ParseMembers(s, e + 1, o)
                       ELSE IF s[e] = "}" THEN [ok |-> TRUE, val |-> o, next |-> e + 1]
                       ELSE NoParse

\* The object the bytes hold, with nothing but white space around it.
Decode(s) ==
    LET b == SkipSpace(s, 1) IN
    IF b > Len(s) \/ s[b] # "{" THEN NoDecode
    ELSE LET m == IF SkipSpace(s, b + 1) <= Len(s) /\ s[SkipSpace(s, b + 1)] = "}"
                  THEN [ok |-> TRUE, val |-> {}, next |-> SkipSpace(s, b + 1) + 1]
                  ELSE ParseMembers(s, b + 1, {})
         IN  IF m.ok /\ SkipSpace(s, m.next) = Len(s) + 1
             THEN [ok |-> TRUE, obj |-> m.val]
             ELSE NoDecode

\* The payloads of the commands: the keys each one reports.
FreshKeys ==
    {"status", "action_id", "tx_hash", "task_id", "ica_address",
     "ica_owner_address", "is_public", "file"}
ResumeKeys == FreshKeys \ {"is_public"}
ApproveKeys == {"status", "action_id", "tx_hash", "ica_address", "ica_owner_address"}
PayloadShapes == {FreshKeys, ResumeKeys, ApproveKeys}

\* A payload over the keys of a shape, its texts built from s and t.
PayloadOf(shape, s, t, pub) ==
    [k \in shape |->
        CASE k = "status" -> Str(<<"o", "k">>)
          [] k = "action_id" -> Str(s)
          [] k = "tx_hash" -> Str(t)
          [] k = "task_id" -> Str(s \o t)
          [] k = "ica_address" -> Str(t \o s)
          [] k = "ica_owner_address" -> Str(<<"a">> \o t)
          [] k = "is_public" -> Bool(pub)
          [] k = "file" -> Str(<<"/">> \o s)]

\* ------------------------------------------------------- the controller wrapper

\* The values controller.gas_prices is drawn from.
GasPriceValues ==
    {"", " ", "0.025ulume", " 0.025ulume ", "0.025ulume,0.1uatom", "0ulume", "bad"}

NoCoins == [coins |-> <<>>, err |-> FALSE]

\* sdk.ParseDecCoins: the coins of a comma-separated list, those of amount
\* zero dropped and the rest in the order of their denominations, or an
\* error for a text that is no such list.
ParseDecCoins(text) ==
    CASE text = "0.025ulume" ->
            [coins |-> <<[amount |-> "0.025", denom |-> "ulume"]>>, err |-> FALSE]
      [] text = "0.025ulume,0.1uatom" ->
            [coins |-> <<[amount |-> "0.1", denom |-> "uatom"],
                         [amount |-> "0.025", denom |-> "ulume"]>>, err |-> FALSE]
      [] text = "0ulume" -> NoCoins
      [] text = "" -> NoCoins
      [] OTHER -> [coins |-> <<>>, err |-> TRUE]

ZeroPrice(e) == [price |-> "0", denom |-> "", err |-> e]

\* Faulty variant of parseGasPrices: of several coins the first is taken.
parseGasPricesFirst(value) ==
    LET trimmed == TrimSpace(value)
        c == ParseDecCoins(trimmed)
    IN  IF trimmed = "" THEN ZeroPrice("")
        ELSE IF c.err THEN ZeroPrice("parse")
        ELSE IF Len(c.coins) = 0 THEN ZeroPrice("")
        ELSE [price |-> c.coins[1].amount, denom |-> c.coins[1].denom, err |-> ""]

\* parseGasPrices: the price and denomination of the one coin of the value.
parseGasPrices(value) ==
    LET trimmed == TrimSpace(value)
        c == ParseDecCoins(trimmed)
    IN  IF trimmed = "" THEN ZeroPrice("")
        ELSE IF c.err THEN ZeroPrice("parse")
        ELSE IF Len(c.coins) = 0 THEN ZeroPrice("")
        ELSE IF Len(c.coins) > 1 THEN ZeroPrice("single")
        ELSE [price |-> c.coins[1].amount, denom |-> c.coins[1].denom, err |-> ""]

\* The values a *Controller may have: the nil pointer, a Controller with no
\* inner controller, and the one NewICAController has built.
Receivers == {"nil", "zero", "live"}

\* The methods of Controller.
Methods ==
    {"Close", "OwnerAddress", "AppPubkey", "EnsureICAAddress", "ICAAddress",
     "SendRequestAction", "SendApproveAction"}

\* Faulty variant of the guard: only the nil pointer is caught.
UninitializedNilOnly(c) == c = "nil"

\* The guard of every method: c == nil || c.inner == nil.
Uninitialized(c) == c \in {"nil", "zero"}

\* What a method returns without reaching the inner controller.
GuardReturn(m) ==
    CASE m = "Close" -> [value |-> "", err |-> ""]
      [] m = "OwnerAddress" -> [value |-> "", err |-> ""]
      [] m = "AppPubkey" -> [value |-> "nil", err |-> ""]
      [] m = "SendRequestAction" -> [value |-> "nil", err |-> "not initialized"]
      [] OTHER -> [value |-> "", err |-> "not initialized"]

\* What the inner controller may return to a method.
InnerReturns(m) ==
    IF m \in {"OwnerAddress", "AppPubkey"}
    THEN {[value |-> "v", err |-> ""]}
    ELSE {[value |-> IF m = "Close" THEN "" ELSE "v", err |-> ""],
          [value |-> IF m = "SendRequestAction" THEN "nil" ELSE "", err |-> "inner"]}

NoFee == [price |-> "", denom |-> ""]

\* No controller is being built.
WrapperIdle ==
    /\ gasPrices = ""
    /\ nilArg = ""
    /\ icaPc = "off"
    /\ icaErr = ""
    /\ fee = NoFee
    /\ innerLog = <<>>
    /\ rets = <<>>

\* ------------------------------------------------------- the command context

\* The default timeout of a command, ten minutes, in ticks.
defaultCommandTimeout == 2

NoCtx == [deadline |-> 0, cancel |-> ""]

\* Faulty variant of commandContext: the timeout is applied to every context.
commandContextAlwaysTimeout(incoming, now) ==
    [deadline |-> now + defaultCommandTimeout, cancel |-> "timer"]

\* commandContext: a context that has a deadline is returned as it is, with
\* a cancel function that does nothing; otherwise context.WithTimeout.
commandContext(incoming, now) ==
    IF incoming # 0
    THEN [deadline |-> incoming, cancel |-> "noop"]
    ELSE [deadline |-> now + defaultCommandTimeout, cancel |-> "timer"]

\* The blocking calls of each handler, in the order the handler makes
\* them; each is handed ctx.
HandlerCalls(c) ==
    CASE c = "upload" ->
            {<<"NewCascadeClient", "NewICAController", "EnsureICAAddress", "Upload">>,
             <<"NewCascadeClient", "NewLumeraClient", "GetAction", "UploadToSupernode">>}
      [] c = "download" ->
            {<<"NewCascadeClient", "NewICAController", "Download", "NewLumeraClient",
               "GetAction">>}
      [] c = "status" -> {<<"NewCascadeClient", "NewLumeraClient", "GetAction">>}
      [] c = "approve" ->
            {<<"NewCascadeClient", "NewICAController", "ICAAddress",
               "CreateApproveActionMessage", "SendApproveAction">>,
             <<"NewCascadeClient", "NewICAController", "CreateApproveActionMessage",
               "SendApproveAction">>}

\* No command context is being followed.
CtxIdle ==
    /\ clock = 0
    /\ parent = 0
    /\ cctx = NoCtx
    /\ under = <<>>
    /\ todo = <<>>

\* Nothing is being written as JSON.
JsonIdle ==
    /\ encPayload = <<>>
    /\ encOut = <<>>
    /\ decoded = NoDecode
    /\ jsonPc = "off"

\* No passphrase reader is in use.
ReaderIdle ==
    /\ rdPass = <<>>
    /\ rdNil = TRUE
    /\ rdData = <<>>
    /\ rdPos = 0
    /\ rdOut = <<>>
    /\ rdLast = NoRead

\* No configuration is being loaded step by step.
ConfIdle ==
    /\ config = [fields |-> DefaultConfig, decodes |-> TRUE, homeErr |-> FALSE]
    /\ loaded = NoLoad
    /\ krParams = NoParams
    /\ confPc = "off"
    /\ validated = NoValidate
    /\ fileReads = <<>>

\* No client is being constructed step by step.
KeysIdle ==
    /\ keystore = [n \in KeyNames |-> "secp256k1"]
    /\ built = "validating"
    /\ ksPc = "off"
    /\ ksLog = <<>>
    /\ ksErr = ""
    /\ ownerAddress = NoAddr
    /\ lumeraAddress = NoAddr
    /\ derived = {}
    /\ builds = 0

\* The first invocation starts; the chain may or may not hold the account.
Init ==
    /\ run = 1
    /\ cmd \in Commands
    /\ pc = "start"
    /\ flagValue \in FlagValues
    /\ args \in ArgLists
    /\ actionIDFlag \in ActionIDFlags(cmd)
    /\ public \in Publics(cmd)
    /\ icaAddressFlag \in IcaAddressFlags(cmd)
    /\ icaAddress = icaAddressFlag
    /\ argValue = ""
    /\ ctxSet = FALSE
    /\ ctxDone = FALSE
    /\ expiredAt = ""
    /\ opened = {}
    /\ closed = {}
    /\ krOpens = 0
    /\ krPassed = {}
    /\ icaAddr = ""
    /\ action = NoAction
    /\ res = NoRes
    /\ fileName = ""
    /\ payload = NoPayload
    /\ stdout = <<>>
    /\ stderr = <<>>
    /\ exitCode = -1
    /\ log = <<>>
    /\ failed = {}
    /\ msg = NoMsg
    /\ meshSigner = ""
    /\ sendResult = ""
    /\ queried = "none"
    /\ preflight = <<>>
    /\ prevReturned = ""
    /\ enrich = ""
    /\ icaAccount \in {"", ICAAddr}
    /\ regPending = FALSE
    /\ regTxCount = 0
    /\ ensureReturned = ""
    /\ config = [fields |-> DefaultConfig, decodes |-> TRUE, homeErr |-> FALSE]
    /\ loaded = NoLoad
    /\ krParams = NoParams
    /\ confPc = "off"
    /\ validated = NoValidate
    /\ fileReads = <<>>
    /\ KeysIdle
    /\ ReaderIdle
    /\ JsonIdle
    /\ CtxIdle
    /\ dirs = {}
    /\ WrapperIdle

\* ------------------------------------------------------- shared helpers

\* Faulty variant of the deferred calls: the ledger client is not closed.
DeferredNoLedger == opened \ {"ledger"}

\* The clients whose Close is deferred when RunE returns: each handler
\* defers Close right after it has opened a client.
Deferred == opened

\* Faulty variant of the error return: the record built so far is written.
ReturnErrPartial(d) ==
    /\ stderr' = Append(stderr, d)
    /\ exitCode' = 1
    /\ pc' = "done"
    /\ closed' = Deferred
    /\ stdout' = Append(stdout, payload)

\* Faulty variant of the error return: the process exits with code 0.
ReturnErrExitZero(d) ==
    /\ stderr' = Append(stderr, d)
    /\ exitCode' = 0
    /\ pc' = "done"
    /\ closed' = Deferred
    /\ UNCHANGED stdout

\* RunE returns err: the deferred Close calls run, main prints the error to
\* the error stream and exits with code 1.  Nothing goes to the output stream.
ReturnErr(d) ==
    /\ stderr' = Append(stderr, d)
    /\ exitCode' = 1
    /\ pc' = "done"
    /\ closed' = Deferred
    /\ UNCHANGED stdout

\* The handler goes on to step p.
Goto(p) ==
    /\ pc' = p
    /\ UNCHANGED <<closed, streams>>

\* The handler has its record and goes on to writeJSON.
ToWrite(p) ==
    /\ payload' = p
    /\ Goto("writeJSON")

\* Faulty variant of a blocking call: the deadline does not abort it.
CallOutcomesNoDeadline == {"ok", "err"}

\* How a blocking collaborator call made under the command context may end:
\* with the deadline expired it is aborted.
CallOutcomes == IF ctxDone THEN {"timeout"} ELSE {"ok", "err"}

\* How a client constructor taking the command context may end.
OpenOutcomes == IF ctxDone THEN {"ok", "err", "timeout"} ELSE {"ok", "err"}

\* The diagnostic class of a failed call: a timeout, or the call's own class.
Kind(o, own) == IF o = "timeout" THEN "timeout" ELSE own

\* Step c ended with outcome o.
Ended(c, o) == failed' = IF o = "ok" THEN failed ELSE failed \cup {c}

\* Collaborator call c was made and ended with outcome o.
Called(c, o) ==
    /\ log' = Append(log, c)
    /\ Ended(c, o)

\* resolveOptionalArg: the value and the error ("" for none).
resolveOptionalArg(flag, as) ==
    LET f == TrimSpace(flag) IN
    IF f # ""
    THEN IF Len(as) > 0
         THEN [value |-> "", err |-> "both"]
         ELSE [value |-> f, err |-> ""]
    ELSE IF Len(as) > 0
         THEN [value |-> TrimSpace(as[1]), err |-> ""]
         ELSE [value |-> "", err |-> "required"]

\* ------------------------------------------------------- shared steps

\* cobra.MaximumNArgs(1), then resolveOptionalArg.
ParseArgs ==
    /\ pc = "start"
    /\ LET r == resolveOptionalArg(flagValue, args) IN
       IF Len(args) > 1
       THEN /\ ReturnErr(Diag("args", "", ""))
            /\ Ended("ParseArgs", "err")
            /\ UNCHANGED argValue
       ELSE IF r.err # ""
       THEN /\ ReturnErr(Diag("usage", "", ""))
            /\ Ended("ParseArgs", "err")
            /\ UNCHANGED argValue
       ELSE /\ argValue' = r.value
            /\ Goto("loadConfig")
            /\ UNCHANGED failed
    /\ UNCHANGED <<run, cmd, inputs, conf, lib, icaAddress, ctxSet, ctxDone, expiredAt,
                   opened, krOpens, krPassed, icaAddr, action, res, fileName,
                   payload, log, chain, sent, hist>>

\* Faulty variant of the step after loadConfig: download creates no directory.
AfterConfigNoMkdir ==
    CASE cmd = "upload" -> "abs"
      [] OTHER -> "newCascade"

\* The directory --out names, after filepath.Clean.
outDir == "out"

\* The step after app.loadConfig and commandContext.
AfterConfig ==
    CASE cmd = "upload" -> "abs"
      [] cmd = "download" -> "mkdir"
      [] OTHER -> "newCascade"

\* app.loadConfig, then commandContext.
LoadConfig ==
    /\ pc = "loadConfig"
    /\ \E o \in {"ok", "err"} :
          /\ Ended("LoadConfig", o)
          /\ IF o = "ok"
             THEN /\ ctxSet' = TRUE
                  /\ Goto(AfterConfig)
             ELSE /\ ReturnErr(Diag("config", "", ""))
                  /\ UNCHANGED ctxSet
    /\ UNCHANGED <<run, cmd, inputs, conf, lib, icaAddress, argValue, ctxDone, expiredAt,
                   opened, krOpens, krPassed, icaAddr, action, res, fileName,
                   payload, log, chain, sent, hist>>

\* upload: filepath.Abs; download: os.MkdirAll, which leaves the directory
\* on disk when it succeeds.
LocalStep ==
    /\ pc \in {"abs", "mkdir"}
    /\ \E o \in {"ok", "err"} :
          /\ Ended(IF pc = "abs" THEN "Abs" ELSE "MkdirAll", o)
          /\ dirs' = IF pc = "mkdir" /\ o = "ok" THEN dirs \cup {outDir} ELSE dirs
          /\ IF o = "ok"
             THEN Goto("newCascade")
             ELSE ReturnErr(Diag("local", "", ""))
    /\ UNCHANGED <<run, cmd, inputs, conf, keys, reader, json, cx, wrapper, icaAddress, argValue, ctxSet, ctxDone,
                   expiredAt, opened, krOpens, krPassed, icaAddr, action, res,
                   fileName, payload, log, chain, sent, hist>>

\* Faulty variant of status: it builds a controller as approve does.
AfterCascadeStatusController ==
    CASE cmd = "upload" ->
            IF TrimSpace(actionIDFlag) # "" THEN "resume_newLumera" ELSE "newController"
      [] OTHER -> "newController"

\* The step after NewCascadeClient.
AfterCascade ==
    CASE cmd = "upload" ->
            IF TrimSpace(actionIDFlag) # "" THEN "resume_newLumera" ELSE "newController"
      [] cmd = "status" -> "status_newLumera"
      [] OTHER -> "newController"

\* The keystore handle newControllerKeyring returns to NewCascadeClient,
\* which hands it to cascade.New and keeps it as Client.Keyring.
OpenedKeyring == "kr1"

\* Faulty variant of the keystore argument: the client opens its own.
ClientKeyringOwn == "kr2"

\* The keystore argument of NewLumeraClient and NewICAController:
\* cascClient.Keyring.
ClientKeyring == OpenedKeyring

\* client.NewCascadeClient: opens the keystore and the cascade client; it
\* can fail before or after the keystore is open.
NewCascadeClient ==
    /\ pc = "newCascade"
    /\ \E o \in OpenOutcomes :
          /\ Ended("NewCascadeClient", o)
          /\ IF o = "ok"
             THEN /\ opened' = opened \cup {"cascade"}
                  /\ krOpens' = krOpens + 1
                  /\ krPassed' = krPassed \cup {OpenedKeyring}
                  /\ Goto(AfterCascade)
             ELSE /\ ReturnErr(Diag(Kind(o, "client"), "", ""))
                  /\ krOpens' \in {krOpens, krOpens + 1}
                  /\ UNCHANGED <<opened, krPassed>>
    /\ UNCHANGED <<run, cmd, inputs, conf, lib, icaAddress, argValue, ctxSet, ctxDone,
                   expiredAt, icaAddr, action, res, fileName, payload, log,
                   chain, sent, hist>>

\* client.NewLumeraClient, where its failure ends the command.
NewLumeraClient ==
    /\ pc \in {"resume_newLumera", "status_newLumera"}
    /\ \E o \in OpenOutcomes :
          /\ Ended("NewLumeraClient", o)
          /\ IF o = "ok"
             THEN /\ opened' = opened \cup {"ledger"}
                  /\ Goto(IF cmd = "upload" THEN "resume_getAction" ELSE "status_getAction")
             ELSE /\ ReturnErr(Diag(Kind(o, "client"), "", ""))
                  /\ UNCHANGED opened
    /\ krPassed' = krPassed \cup {ClientKeyring}
    /\ UNCHANGED <<run, cmd, inputs, conf, lib, icaAddress, argValue, ctxSet, ctxDone,
                   expiredAt, krOpens, icaAddr, action, res, fileName, payload,
                   log, chain, sent, hist>>

\* ------------------------------------------------------- upload, resume

\* Faulty variant of the resume record: the visibility is the --public flag.
ResumePayloadFlag(a, taskID) ==
    [status |-> "ok", action_id |-> a.ID, tx_hash |-> "", task_id |-> taskID,
     ica_address |-> a.Creator, ica_owner_address |-> OwnerAddr, file |-> "abs",
     is_public |-> public]

\* The record the resume path reports.
ResumePayload(a, taskID) ==
    LET base == [status |-> "ok", action_id |-> a.ID, tx_hash |-> "",
                 task_id |-> taskID, ica_address |-> a.Creator,
                 ica_owner_address |-> OwnerAddr, file |-> "abs"]
    IN IF a.MetaKind = "cascade" THEN base @@ [is_public |-> a.Public] ELSE base

\* Faulty variant of the state check: any state is accepted.
ResumeStateOKAny(a) == TRUE

\* The resume path's state check: only a pending action may be uploaded to.
ResumeStateOK(a) == a.State = ActionStatePending

\* bc.Action.GetAction and the check of the action's state.
ResumeGetAction ==
    /\ pc = "resume_getAction"
    /\ log' = Append(log, "GetAction")
    /\ \E o \in CallOutcomes :
          IF o = "ok"
          THEN \E a \in Actions :
                  /\ action' = a
                  /\ IF ResumeStateOK(a)
                     THEN /\ Goto("resume_upload")
                          /\ UNCHANGED failed
                     ELSE /\ ReturnErr(Diag("state-mismatch", a.State, ActionStatePending))
                          /\ Ended("StateCheck", "err")
          ELSE /\ ReturnErr(Diag(Kind(o, "notfound"), "", ""))
               /\ Ended("GetAction", o)
               /\ UNCHANGED action
    /\ UNCHANGED <<run, cmd, inputs, conf, lib, icaAddress, argValue, ctxSet, ctxDone,
                   expiredAt, opened, krOpens, krPassed, icaAddr, res,
                   fileName, payload, chain, sent, hist>>

\* Faulty variant of the resume path: a failed mesh upload is made again.
ResumeUploadFailedRetry == "retry"

\* What the resume path does when UploadToSupernode fails: it returns the
\* error; the call is not made again.
ResumeUploadFailed == "return"

\* Faulty variant of the resume signer: the controller owner signs.
ResumeSignerOwner(a) == OwnerAddr

\* The signer the resume path hands to the mesh upload:
\* strings.TrimSpace(action.Creator).
ResumeSigner(a) == TrimSpace(a.Creator)

\* cascClient.Cascade.UploadToSupernode with the action's creator as signer.
ResumeUpload ==
    /\ pc = "resume_upload"
    /\ \E o \in CallOutcomes :
          /\ Called("UploadToSupernode", o)
          /\ meshSigner' = ResumeSigner(action)
          /\ IF o = "ok"
             THEN /\ res' = [res EXCEPT !.TaskID = "task1"]
                  /\ ToWrite(ResumePayload(action, "task1"))
             ELSE /\ UNCHANGED <<res, payload>>
                  /\ IF ResumeUploadFailed = "return"
                     THEN ReturnErr(Diag(Kind(o, "upload"), "", ""))
                     ELSE Goto("resume_upload")
    /\ UNCHANGED <<run, cmd, inputs, conf, lib, icaAddress, argValue, ctxSet, ctxDone,
                   expiredAt, opened, krOpens, krPassed, icaAddr, action,
                   fileName, chain, msg, sendResult, hist>>

\* ------------------------------------------------------- ICA controller

\* Faulty variant of upload: Cascade.Upload is called without the address.
AfterControllerNoEnsure ==
    CASE cmd = "upload" -> "upload_build"
      [] cmd = "download" -> "download"
      [] OTHER -> IF TrimSpace(icaAddress) = "" THEN "ica_query" ELSE "approve_build"

\* Faulty variant of approve: the address is queried even when it is given.
AfterControllerAlwaysQuery ==
    CASE cmd = "upload" -> "ensure"
      [] cmd = "download" -> "download"
      [] OTHER -> "ica_query"

\* The step after NewICAController.
AfterController ==
    CASE cmd = "upload" -> "ensure"
      [] cmd = "download" -> "download"
      [] OTHER -> IF TrimSpace(icaAddress) = "" THEN "ica_query" ELSE "approve_build"

\* client.NewICAController: parseGasPrices, then ica.NewController.
NewICAController ==
    /\ pc = "newController"
    /\ \E o \in OpenOutcomes \cup {"gas"} :
          /\ Ended("NewICAController", o)
          /\ IF o = "ok"
             THEN /\ opened' = opened \cup {"controller"}
                  /\ Goto(AfterController)
             ELSE /\ ReturnErr(Diag(Kind(o, "client"), "", ""))
                  /\ UNCHANGED opened
    /\ krPassed' = krPassed \cup {ClientKeyring}
    /\ UNCHANGED <<run, cmd, inputs, conf, lib, icaAddress, argValue, ctxSet, ctxDone,
                   expiredAt, krOpens, icaAddr, action, res, fileName, payload,
                   log, chain, sent, hist>>

\* The nil checks of the Controller wrapper: the methods reach the inner
\* controller only when NewICAController has built one.
ControllerInitialized == "controller" \in opened

\* EnsureICAAddress returns an error from step s to the upload command.
EnsureFails(s, kind) ==
    /\ failed' = failed \cup {s, "EnsureICAAddress"}
    /\ ReturnErr(Diag(kind, "", ""))
    /\ UNCHANGED <<icaAddr, ensureReturned>>

\* EnsureICAAddress returns addr to the upload command.
EnsureReturns(addr) ==
    /\ icaAddr' = addr
    /\ ensureReturned' = addr
    /\ Goto("upload_build")
    /\ UNCHANGED failed

\* EnsureICAAddress goes on to its step p.
EnsureGoto(p) ==
    /\ Goto(p)
    /\ UNCHANGED <<icaAddr, ensureReturned, failed>>

\* Controller.EnsureICAAddress is entered.
EnsureICAAddress ==
    /\ pc = "ensure"
    /\ log' = Append(log, "EnsureICAAddress")
    /\ prevReturned' = ensureReturned
    /\ IF ControllerInitialized
       THEN EnsureGoto("ensure_query")
       ELSE EnsureFails("EnsureICAAddress", "notinit")
    /\ UNCHANGED <<run, cmd, inputs, conf, lib, icaAddress, argValue, ctxSet, ctxDone,
                   expiredAt, opened, krOpens, krPassed, action, res, fileName,
                   payload, icaAccount, regPending, regTxCount, sent, queried,
                   preflight, enrich>>

\* Faulty variant of the query's result: the account is never found.
EnsureQueryFoundNever == FALSE

\* Inner step 1: whether the query for (owner, connection) found an account.
EnsureQueryFound == icaAccount # ""

\* Inner step 1: query the delegated account; if present, return it.
EnsureQuery ==
    /\ pc = "ensure_query"
    /\ log' = Append(log, "QueryICA")
    /\ \E o \in CallOutcomes :
          /\ queried' = IF o = "ok" THEN icaAccount ELSE queried
          /\ IF o # "ok"
             THEN EnsureFails("QueryICA", Kind(o, "query"))
             ELSE IF EnsureQueryFound
             THEN EnsureReturns(icaAccount)
             ELSE EnsureGoto("ensure_conn")
    /\ UNCHANGED <<run, cmd, inputs, conf, lib, icaAddress, argValue, ctxSet, ctxDone,
                   expiredAt, opened, krOpens, krPassed, action, res, fileName,
                   payload, icaAccount, regPending, regTxCount, sent,
                   preflight, prevReturned, enrich>>

\* Faulty variant of the preflight: the client's status is not looked at.
PreflightOKConnOnly(conn, client) == conn = "open"

\* Inner step 2: the connection must exist and resolve to a client, and the
\* client must be active.
PreflightOK(conn, client) == conn = "open" /\ client = "Active"

\* Inner step 2: the preflight checks, before anything is submitted.
EnsurePreflight ==
    /\ pc = "ensure_conn"
    /\ log' = Append(log, "Preflight")
    /\ \E o \in CallOutcomes, conn \in {"open", "missing", "noclient"},
          client \in {"Active", "Expired", "Frozen"} :
          /\ preflight' = IF o = "ok" THEN <<conn, client>> ELSE preflight
          /\ IF o # "ok"
             THEN EnsureFails("Preflight", Kind(o, "query"))
             ELSE IF PreflightOK(conn, client)
             THEN EnsureGoto("ensure_register")
             ELSE EnsureFails("Preflight", "precondition")
    /\ UNCHANGED <<run, cmd, inputs, conf, lib, icaAddress, argValue, ctxSet, ctxDone,
                   expiredAt, opened, krOpens, krPassed, action, res, fileName,
                   payload, icaAccount, regPending, regTxCount, sent, queried,
                   prevReturned, enrich>>

\* Inner step 3: submit MsgRegisterInterchainAccount on the controller chain.
EnsureRegister ==
    /\ pc = "ensure_register"
    /\ log' = Append(log, "RegisterTx")
    /\ \E o \in CallOutcomes :
          IF o = "ok"
          THEN /\ regTxCount' = regTxCount + 1
               /\ regPending' = TRUE
               /\ EnsureGoto("ensure_poll")
          ELSE /\ EnsureFails("RegisterTx", Kind(o, "register"))
               /\ UNCHANGED <<regTxCount, regPending>>
    /\ UNCHANGED <<run, cmd, inputs, conf, lib, icaAddress, argValue, ctxSet, ctxDone,
                   expiredAt, opened, krOpens, krPassed, action, res, fileName,
                   payload, icaAccount, sent, hist>>

\* Faulty variant of the poll: the deadline is not looked at.
PollTimedOutNever == FALSE

\* Inner step 4: the poll gives up when the caller's deadline has passed.
PollTimedOut == ctxDone

\* Inner step 4: poll until the address is observable or the deadline has
\* passed.  A poll that sees neither changes nothing and is taken again.
EnsurePoll ==
    /\ pc = "ensure_poll"
    /\ PollTimedOut \/ icaAccount # ""
    /\ IF PollTimedOut
       THEN EnsureFails("Poll", "timeout")
       ELSE EnsureReturns(icaAccount)
    /\ UNCHANGED <<run, cmd, inputs, conf, lib, icaAddress, argValue, ctxSet, ctxDone,
                   expiredAt, opened, krOpens, krPassed, action, res, fileName,
                   payload, log, icaAccount, regPending, regTxCount, sent,
                   hist>>

\* The relayer completes a registration: the delegated account appears.
RelayRegistration ==
    /\ regPending
    /\ icaAccount' = ICAAddr
    /\ regPending' = FALSE
    /\ UNCHANGED <<run, cmd, pc, inputs, conf, lib, icaAddress, argValue, ctxSet, ctxDone,
                   expiredAt, clients, icaAddr, action, res, fileName, payload,
                   streams, log, failed, regTxCount, ensureReturned, sent,
                   hist>>

\* ------------------------------------------------------- upload, fresh

\* How a send through the delegated-account channel may end: accepted and
\* acknowledged, rejected at broadcast, no acknowledgment in time, or an
\* acknowledgment carrying a host-side execution error.
SendOutcomes ==
    IF ctxDone THEN {"acktimeout"} ELSE {"ok", "broadcast", "acktimeout", "hostexec"}

\* Faulty variant of the fresh record: the transaction hash is left out.
FreshPayloadNoTx(r, addr, pub) ==
    [status |-> "ok", action_id |-> r.ActionID, tx_hash |-> "",
     task_id |-> r.TaskID, ica_address |-> addr, ica_owner_address |-> OwnerAddr,
     is_public |-> pub, file |-> "abs"]

\* The record the fresh path reports.
FreshPayload(r, addr, pub) ==
    [status |-> "ok", action_id |-> r.ActionID, tx_hash |-> r.TxHash,
     task_id |-> r.TaskID, ica_address |-> addr, ica_owner_address |-> OwnerAddr,
     is_public |-> pub, file |-> "abs"]

\* Faulty variant of the creator: the controller owner address is used.
RequestCreatorOwner(addr) == OwnerAddr

\* The creator of the action-request message Cascade.Upload builds under
\* cascade.WithICACreatorAddress(addr).
RequestCreator(addr) == addr

\* Cascade.Upload is entered and builds the MsgRequestAction.
UploadBuild ==
    /\ pc = "upload_build"
    /\ \E o \in {"ok", "err"} :
          /\ Called("BuildRequestMsg", o)
          /\ IF o = "ok"
             THEN /\ msg' = [kind |-> "request", creator |-> RequestCreator(icaAddr),
                             actionID |-> "", public |-> public]
                  /\ Goto("upload_send")
             ELSE /\ ReturnErr(Diag("build", "", ""))
                  /\ UNCHANGED msg
    /\ UNCHANGED <<run, cmd, inputs, conf, lib, icaAddress, argValue, ctxSet, ctxDone,
                   expiredAt, opened, krOpens, krPassed, icaAddr, action, res,
                   fileName, payload, chain, meshSigner, sendResult, hist>>

\* Faulty variant of the send hook: the error of the send is dropped.
sendFuncSwallow(o) == "ok"

\* The send hook handed to Cascade.Upload: it returns what
\* Controller.SendRequestAction returned, error included.
sendFunc(o) == o

\* What Cascade.Upload does with the result of the send hook: on an error it
\* returns the error, otherwise it goes on to the mesh upload.
AfterSend(o) == IF o = "ok" THEN "upload_mesh" ELSE "return"

\* Cascade.Upload calls the send hook, which blocks in
\* Controller.SendRequestAction until the acknowledgment.
UploadSend ==
    /\ pc = "upload_send"
    /\ \E o \in SendOutcomes :
          /\ Called("SendRequestAction", o)
          /\ sendResult' = o
          /\ IF AfterSend(sendFunc(o)) = "upload_mesh"
             THEN /\ res' = [res EXCEPT !.ActionID = IF o = "ok" THEN "a1" ELSE "",
                                        !.TxHash = IF o = "ok" THEN "tx1" ELSE ""]
                  /\ Goto("upload_mesh")
             ELSE /\ ReturnErr(Diag("send", "", ""))
                  /\ UNCHANGED res
    /\ UNCHANGED <<run, cmd, inputs, conf, lib, icaAddress, argValue, ctxSet, ctxDone,
                   expiredAt, opened, krOpens, krPassed, icaAddr, action,
                   fileName, payload, chain, msg, meshSigner, hist>>

\* Cascade.Upload uploads the bytes keyed by the new action id and returns.
UploadMesh ==
    /\ pc = "upload_mesh"
    /\ \E o \in CallOutcomes :
          /\ Called("UploadToSupernode", o)
          /\ meshSigner' = icaAddr
          /\ IF o = "ok"
             THEN /\ res' = [res EXCEPT !.TaskID = "task1"]
                  /\ ToWrite(FreshPayload(res', icaAddr, public))
             ELSE /\ ReturnErr(Diag(Kind(o, "upload"), "", ""))
                  /\ UNCHANGED <<res, payload>>
    /\ UNCHANGED <<run, cmd, inputs, conf, lib, icaAddress, argValue, ctxSet, ctxDone,
                   expiredAt, opened, krOpens, krPassed, icaAddr, action,
                   fileName, chain, msg, sendResult, hist>>

\* ------------------------------------------------------- action approve

\* The record approve reports.
ApprovePayload(id, tx, addr) ==
    [status |-> "ok", action_id |-> id, tx_hash |-> tx, ica_address |-> addr,
     ica_owner_address |-> OwnerAddr]

\* The inner controller's ICAAddress: the account of (owner, connection),
\* or a not-found error when there is none.  It is a query: it registers
\* nothing.
ICAAddressResult(o) ==
    IF o # "ok" THEN [addr |-> "", err |-> o]
    ELSE IF icaAccount = "" THEN [addr |-> "", err |-> "notfound"]
    ELSE [addr |-> icaAccount, err |-> ""]

\* Faulty variant of approve: the error of the query is ignored.
ApproveOnQueryIgnoreErr(r) == "approve_build"

\* What the approve command does with the result of Controller.ICAAddress:
\* it returns the error, or goes on to build the message.
ApproveOnQuery(r) == IF r.err # "" THEN "return" ELSE "approve_build"

\* Controller.ICAAddress, called when --ica-address is blank.
ApproveQuery ==
    /\ pc = "ica_query"
    /\ \E o \in CallOutcomes :
          LET r == ICAAddressResult(o) IN
          /\ Called("ICAAddress", IF r.err = "" THEN "ok" ELSE r.err)
          /\ icaAddress' = r.addr
          /\ IF ApproveOnQuery(r) = "approve_build"
             THEN Goto("approve_build")
             ELSE ReturnErr(Diag(r.err, "", ""))
    /\ UNCHANGED <<run, cmd, inputs, conf, lib, argValue, ctxSet, ctxDone, expiredAt,
                   opened, krOpens, krPassed, icaAddr, action, res, fileName,
                   payload, chain, sent, hist>>

\* cascade.CreateApproveActionMessage with the resolved creator.
ApproveBuild ==
    /\ pc = "approve_build"
    /\ \E o \in {"ok", "err"} :
          /\ Called("BuildApproveMsg", o)
          /\ IF o = "ok"
             THEN /\ msg' = [kind |-> "approve", creator |-> icaAddress,
                             actionID |-> argValue, public |-> FALSE]
                  /\ Goto("approve_send")
             ELSE /\ ReturnErr(Diag("build", "", ""))
                  /\ UNCHANGED msg
    /\ UNCHANGED <<run, cmd, inputs, conf, lib, icaAddress, argValue, ctxSet, ctxDone,
                   expiredAt, opened, krOpens, krPassed, icaAddr, action, res,
                   fileName, payload, chain, meshSigner, sendResult, hist>>

\* Controller.SendApproveAction.
ApproveSend ==
    /\ pc = "approve_send"
    /\ \E o \in SendOutcomes :
          /\ Called("SendApproveAction", o)
          /\ sendResult' = o
          /\ IF o = "ok"
             THEN /\ res' = [res EXCEPT !.TxHash = "tx1"]
                  /\ ToWrite(ApprovePayload(argValue, "tx1", icaAddress))
             ELSE /\ ReturnErr(Diag("send", "", ""))
                  /\ UNCHANGED <<res, payload>>
    /\ UNCHANGED <<run, cmd, inputs, conf, lib, icaAddress, argValue, ctxSet, ctxDone,
                   expiredAt, opened, krOpens, krPassed, icaAddr, action,
                   fileName, chain, msg, meshSigner, hist>>

\* ------------------------------------------------------- download

\* The record download reports.
DownloadPayload(r, name) ==
    [status |-> "ok", action_id |-> r.ActionID, task_id |-> r.TaskID,
     output_path |-> r.OutputPath, file_name |-> name]

\* The file name recovered from an action's metadata.
MetaFileName(a) == IF a.MetaKind = "cascade" THEN a.FileName ELSE ""

\* Faulty variant of the download signer: the delegated account signs.
DownloadSignerICA == ICAAddr

\* The signer download hands to the mesh: controller.OwnerAddress().
DownloadSigner == OwnerAddr

\* cascClient.Cascade.Download signed by the controller owner address.
Download ==
    /\ pc = "download"
    /\ \E o \in CallOutcomes :
          /\ Called("Download", o)
          /\ meshSigner' = DownloadSigner
          /\ IF o = "ok"
             THEN /\ res' = [res EXCEPT !.ActionID = argValue, !.TaskID = "task2",
                                        !.OutputPath = "out/f.bin"]
                  /\ Goto("enrich_newLumera")
             ELSE /\ ReturnErr(Diag(Kind(o, "download"), "", ""))
                  /\ UNCHANGED res
    /\ UNCHANGED <<run, cmd, inputs, conf, lib, icaAddress, argValue, ctxSet, ctxDone,
                   expiredAt, opened, krOpens, krPassed, icaAddr, action,
                   fileName, payload, chain, msg, sendResult, hist>>

\* Faulty variant of download: a failed file-name lookup ends the command.
EnrichFailedAborts == "fail"

\* What the download command does when a step of the file-name lookup
\* fails: it goes on to report, with the file name left empty.
EnrichFailed == "report"

\* Best-effort: client.NewLumeraClient for the file-name lookup.
EnrichNewLumeraClient ==
    /\ pc = "enrich_newLumera"
    /\ \E o \in OpenOutcomes :
          /\ Ended("NewLumeraClient", o)
          /\ IF o = "ok"
             THEN /\ opened' = opened \cup {"ledger"}
                  /\ Goto("enrich_getAction")
                  /\ UNCHANGED <<payload, enrich>>
             ELSE /\ UNCHANGED opened
                  /\ enrich' = "client"
                  /\ IF EnrichFailed = "report"
                     THEN ToWrite(DownloadPayload(res, fileName))
                     ELSE /\ ReturnErr(Diag(Kind(o, "client"), "", ""))
                          /\ UNCHANGED payload
    /\ krPassed' = krPassed \cup {ClientKeyring}
    /\ UNCHANGED <<run, cmd, inputs, conf, lib, icaAddress, argValue, ctxSet, ctxDone,
                   expiredAt, krOpens, icaAddr, action, res, fileName, log,
                   chain, sent, queried, preflight, prevReturned>>

\* Best-effort: bc.Action.GetAction and the metadata type check.
EnrichGetAction ==
    /\ pc = "enrich_getAction"
    /\ \E o \in CallOutcomes :
          /\ Called("GetAction", o)
          /\ IF o = "ok"
             THEN \E a \in Actions :
                     /\ action' = a
                     /\ fileName' = MetaFileName(a)
                     /\ enrich' = IF a.MetaKind = "cascade" THEN "ok" ELSE "meta"
                     /\ ToWrite(DownloadPayload(res, fileName'))
             ELSE /\ UNCHANGED <<action, fileName>>
                  /\ enrich' = "query"
                  /\ IF EnrichFailed = "report"
                     THEN ToWrite(DownloadPayload(res, fileName))
                     ELSE /\ ReturnErr(Diag(Kind(o, "notfound"), "", ""))
                          /\ UNCHANGED payload
    /\ UNCHANGED <<run, cmd, inputs, conf, lib, icaAddress, argValue, ctxSet, ctxDone,
                   expiredAt, opened, krOpens, krPassed, icaAddr, res, chain,
                   sent, queried, preflight, prevReturned>>

\* ------------------------------------------------------- action status

\* The record status reports.
StatusPayload(a) ==
    LET base == [status |-> "ok", action_id |-> a.ID, state |-> a.State,
                 creator |-> a.Creator]
    IN IF a.MetaKind = "cascade" THEN base @@ [is_public |-> a.Public] ELSE base

\* bc.Action.GetAction, then the report.
StatusGetAction ==
    /\ pc = "status_getAction"
    /\ \E o \in CallOutcomes :
          /\ Called("GetAction", o)
          /\ IF o = "ok"
             THEN \E a \in Actions :
                     /\ action' = a
                     /\ ToWrite(StatusPayload(a))
             ELSE /\ ReturnErr(Diag(Kind(o, "notfound"), "", ""))
                  /\ UNCHANGED <<action, payload>>
    /\ UNCHANGED <<run, cmd, inputs, conf, lib, icaAddress, argValue, ctxSet, ctxDone,
                   expiredAt, opened, krOpens, krPassed, icaAddr, res,
                   fileName, chain, sent, hist>>

\* ------------------------------------------------------- reporting

\* writeJSON, then the handler returns: the deferred Close calls run.
writeJSON ==
    /\ pc = "writeJSON"
    /\ \E o \in {"ok", "err"} :
          /\ Ended("writeJSON", o)
          /\ IF o = "ok"
             THEN /\ stdout' = Append(stdout, payload)
                  /\ exitCode' = 0
                  /\ pc' = "done"
                  /\ closed' = Deferred
                  /\ UNCHANGED stderr
             ELSE ReturnErr(Diag("write", "", ""))
    /\ UNCHANGED <<run, cmd, inputs, conf, lib, icaAddress, argValue, ctxSet, ctxDone,
                   expiredAt, opened, krOpens, krPassed, icaAddr, action, res,
                   fileName, payload, log, chain, sent, hist>>

\* ------------------------------------------------------- environment

\* The command deadline set by commandContext expires.
DeadlineExpires ==
    /\ ctxSet
    /\ ~ctxDone
    /\ pc # "done"
    /\ ctxDone' = TRUE
    /\ expiredAt' = pc
    /\ UNCHANGED <<run, cmd, pc, inputs, conf, lib, icaAddress, argValue, ctxSet, clients,
                   icaAddr, action, res, fileName, payload, streams, log,
                   failed, chain, sent, hist>>

\* The process has exited; the tool is started again.  Only the chain's
\* state carries over.
Restart ==
    /\ pc = "done"
    /\ run < MaxRuns
    /\ run' = run + 1
    /\ cmd' \in Commands
    /\ pc' = "start"
    /\ flagValue' \in FlagValues
    /\ args' \in ArgLists
    /\ actionIDFlag' \in ActionIDFlags(cmd')
    /\ public' \in Publics(cmd')
    /\ icaAddressFlag' \in IcaAddressFlags(cmd')
    /\ icaAddress' = icaAddressFlag'
    /\ argValue' = ""
    /\ ctxSet' = FALSE
    /\ ctxDone' = FALSE
    /\ expiredAt' = ""
    /\ opened' = {}
    /\ closed' = {}
    /\ krOpens' = 0
    /\ krPassed' = {}
    /\ icaAddr' = ""
    /\ action' = NoAction
    /\ res' = NoRes
    /\ fileName' = ""
    /\ payload' = NoPayload
    /\ stdout' = <<>>
    /\ stderr' = <<>>
    /\ exitCode' = -1
    /\ log' = <<>>
    /\ failed' = {}
    /\ msg' = NoMsg
    /\ meshSigner' = ""
    /\ sendResult' = ""
    /\ queried' = "none"
    /\ preflight' = <<>>
    /\ prevReturned' = ""
    /\ enrich' = ""
    /\ UNCHANGED <<chain, conf, lib>>

\* One step of the running command, or of its environment.
Step ==
    \/ ParseArgs
    \/ LoadConfig
    \/ LocalStep
    \/ NewCascadeClient
    \/ NewLumeraClient
    \/ ResumeGetAction
    \/ ResumeUpload
    \/ NewICAController
    \/ EnsureICAAddress
    \/ EnsureQuery
    \/ EnsurePreflight
    \/ EnsureRegister
    \/ EnsurePoll
    \/ RelayRegistration
    \/ UploadBuild
    \/ UploadSend
    \/ UploadMesh
    \/ ApproveQuery
    \/ ApproveBuild
    \/ ApproveSend
    \/ Download
    \/ EnrichNewLumeraClient
    \/ EnrichGetAction
    \/ StatusGetAction
    \/ writeJSON
    \/ DeadlineExpires

Next == Step \/ Restart

Spec == Init /\ [][Next]_vars

\* Time passes, so a deadline that is set expires unless the command ends
\* first, and a command that can take its next step takes it.
FairSpec ==
    /\ Init
    /\ [][Next]_vars
    /\ WF_vars(DeadlineExpires)
    /\ WF_vars(EnsurePoll)

\* The handler runs: a call in flight returns, with its result or aborted by
\* the deadline, and the handler takes its next step.  Nothing makes the
\* user start the tool again.
LiveSpec ==
    /\ Init
    /\ [][Next]_vars
    /\ WF_vars(Step)

\* ------------------------------------------------------- loading the configuration

\* The handler of a command is in app.loadConfig.
AtLoadConfig ==
    /\ run = 1
    /\ cmd = "status"
    /\ pc = "loadConfig"
    /\ flagValue = "a1"
    /\ args = <<>>
    /\ actionIDFlag = ""
    /\ public = FALSE
    /\ icaAddressFlag = ""
    /\ icaAddress = ""
    /\ argValue = "a1"
    /\ ctxSet = FALSE
    /\ ctxDone = FALSE
    /\ expiredAt = ""
    /\ opened = {}
    /\ closed = {}
    /\ krOpens = 0
    /\ krPassed = {}
    /\ icaAddr = ""
    /\ action = NoAction
    /\ res = NoRes
    /\ fileName = ""
    /\ payload = NoPayload
    /\ stdout = <<>>
    /\ stderr = <<>>
    /\ exitCode = -1
    /\ log = <<>>
    /\ failed = {}
    /\ msg = NoMsg
    /\ meshSigner = ""
    /\ sendResult = ""
    /\ queried = "none"
    /\ preflight = <<>>
    /\ prevReturned = ""
    /\ enrich = ""
    /\ icaAccount = ""
    /\ regPending = FALSE
    /\ regTxCount = 0
    /\ ensureReturned = ""

\* The configuration file and its environment are any of the bounded ones.
ConfigInit ==
    /\ AtLoadConfig
    /\ \E c \in Blanked(MaxBlank), l \in LogLevels, b \in Backends,
          d \in KeyringDirs, h \in Homes, pp \in PassPlains, pf \in PassFiles,
          dec \in BOOLEAN, he \in BOOLEAN :
          /\ dec \/ (c = [f \in PlainFields |-> "v"] /\ l = "info" /\ b = "test"
                       /\ d = "/k" /\ h = "/h" /\ pp = "" /\ pf = "" /\ ~he)
          /\ he => d = "~/k"
          /\ config = [fields |-> MakeConfig(c, l, b, d, h, pp, pf),
                       decodes |-> dec, homeErr |-> he]
    /\ loaded = NoLoad
    /\ krParams = NoParams
    /\ confPc = "file"
    /\ validated = NoValidate
    /\ fileReads = <<>>
    /\ KeysIdle
    /\ ReaderIdle
    /\ JsonIdle
    /\ CtxIdle
    /\ dirs = {}
    /\ WrapperIdle

\* The variables of the command, which loading the configuration leaves alone.
commandVars ==
    <<run, cmd, pc, flagValue, args, actionIDFlag, public, icaAddressFlag,
      icaAddress, argValue, ctxSet, ctxDone, expiredAt, opened, closed, krOpens,
      krPassed, icaAddr, action, res, fileName, payload, stdout, stderr,
      exitCode, log, failed, icaAccount, regPending, regTxCount,
      ensureReturned, msg, meshSigner, sendResult, queried, preflight,
      prevReturned, enrich>>

\* client.LoadConfig is applied to the file.
LoadConfigStep ==
    /\ confPc = "file"
    /\ loaded' = LoadConfigFile(config)
    /\ validated' = ValidateCall(config)
    /\ fileReads' = fileReads \o LoadReads(config)
    /\ confPc' = "loaded"
    /\ UNCHANGED <<commandVars, lib, config, krParams>>

\* NewCascadeClient calls newControllerKeyring on the loaded configuration.
OpenKeyringStep ==
    /\ confPc = "loaded"
    /\ loaded.err = NoErr
    /\ krParams' = newControllerKeyring(loaded.cfg)
    /\ fileReads' = fileReads \o
          ResolveReads(loaded.cfg["controller.keyring_passphrase_plain"],
                       loaded.cfg["controller.keyring_passphrase_file"])
    /\ confPc' = "keyring"
    /\ UNCHANGED <<commandVars, lib, config, loaded, validated>>

ConfigNext == LoadConfigStep \/ OpenKeyringStep

ConfigSpec == ConfigInit /\ [][ConfigNext]_vars

\* ------------------------------------------------------- constructing the client

\* Number of times the client is constructed over the same keystore.
MaxBuilds == 2

\* The handler of command c is at position p; set tells whether
\* commandContext has run.  Nothing has been opened, called or written.
CommandAt(c, p, set) ==
    /\ run = 1
    /\ cmd = c
    /\ pc = p
    /\ flagValue = "a1"
    /\ args = <<>>
    /\ actionIDFlag = ""
    /\ public = FALSE
    /\ icaAddressFlag = ""
    /\ icaAddress = ""
    /\ argValue = "a1"
    /\ ctxSet = set
    /\ ctxDone = FALSE
    /\ expiredAt = ""
    /\ opened = {}
    /\ closed = {}
    /\ krOpens = 0
    /\ krPassed = {}
    /\ icaAddr = ""
    /\ action = NoAction
    /\ res = NoRes
    /\ fileName = ""
    /\ payload = NoPayload
    /\ stdout = <<>>
    /\ stderr = <<>>
    /\ exitCode = -1
    /\ log = <<>>
    /\ failed = {}
    /\ msg = NoMsg
    /\ meshSigner = ""
    /\ sendResult = ""
    /\ queried = "none"
    /\ preflight = <<>>
    /\ prevReturned = ""
    /\ enrich = ""
    /\ icaAccount = ""
    /\ regPending = FALSE
    /\ regTxCount = 0
    /\ ensureReturned = ""

\* NewCascadeClient is entered with any of the bounded configurations, over
\* any of the bounded keystores, in either of its two definitions.
KeysInit ==
    /\ CommandAt("status", "newCascade", TRUE)
    /\ \E bin \in Binaries, ch \in ChainIDs, hrp \in HRPs, hostKey \in KeyNames,
          ct \in KeyTypes, ht \in KeyTypes :
          config = [fields |-> KeyConfig(bin, ch, hrp, hostKey, ct, ht),
                    decodes |-> TRUE, homeErr |-> FALSE]
    /\ loaded = NoLoad
    /\ krParams = NoParams
    /\ confPc = "off"
    /\ validated = NoValidate
    /\ fileReads = <<>>
    /\ keystore \in Keystores
    /\ built \in Definitions
    /\ ksPc = "newControllerKeyring"
    /\ ksLog = <<>>
    /\ ksErr = ""
    /\ ownerAddress = NoAddr
    /\ lumeraAddress = NoAddr
    /\ derived = {}
    /\ builds = 1
    /\ ReaderIdle
    /\ JsonIdle
    /\ CtxIdle
    /\ dirs = {}
    /\ WrapperIdle

\* NewCascadeClient returns the error e.
KsFail(e) ==
    /\ ksErr' = e
    /\ ksPc' = "failed"

\* What the construction never changes.
ksFrame ==
    <<commandVars, reader, json, more, config, loaded, confPc, validated, fileReads,
      keystore, built, builds>>

\* Faulty variant of the validating definition: the key types are not checked.
AfterKeyringSkip == "deriveOwner"

\* The step after newControllerKeyring: the validating definition checks
\* the key types, the plain one goes on to derive the addresses.
AfterKeyring == IF built = "validating" THEN "validateController" ELSE "deriveOwner"

\* newControllerKeyring: the parameters are built and the keystore is opened.
KsOpenKeyring ==
    /\ ksPc = "newControllerKeyring"
    /\ LET p == newControllerKeyring(config.fields) IN
       \E o \in {"ok", "err"} :
          /\ krParams' = p
          /\ IF p.err
             THEN /\ KsFail("passphrase")
                  /\ UNCHANGED ksLog
             ELSE /\ ksLog' = Append(ksLog, "NewKeyring")
                  /\ IF o = "ok"
                     THEN ksPc' = AfterKeyring /\ UNCHANGED ksErr
                     ELSE KsFail("keyring")
    /\ UNCHANGED <<ksFrame, ownerAddress, lumeraAddress, derived>>

\* validateKeyType on the controller key, then on the host key.
KsValidateKeyType ==
    /\ ksPc \in {"validateController", "validateLumera"}
    /\ LET c == config.fields
           e == IF ksPc = "validateController"
                THEN validateKeyType(keystore, c["controller.key_name"],
                                     c["controller.key_type"])
                ELSE validateKeyType(keystore, c["lumera.key_name"],
                                     c["lumera.key_type"])
       IN  /\ ksLog' = Append(ksLog, "validateKeyType")
           /\ IF e # ""
              THEN KsFail(e)
              ELSE /\ ksPc' = IF ksPc = "validateController"
                              THEN "validateLumera" ELSE "deriveOwner"
                   /\ UNCHANGED ksErr
    /\ UNCHANGED <<ksFrame, krParams, ownerAddress, lumeraAddress, derived>>

\* sdkcrypto.AddressFromKey for the owner address under account_hrp, then
\* for the host address under "lumera", both on the opened keystore.
KsDerive ==
    /\ ksPc \in {"deriveOwner", "deriveLumera"}
    /\ LET c == config.fields
           name == IF ksPc = "deriveOwner" THEN c["controller.key_name"]
                   ELSE c["lumera.key_name"]
           hrp == IF ksPc = "deriveOwner" THEN c["controller.account_hrp"] ELSE "lumera"
           a == AddressFromKey(keystore, name, hrp)
       IN  /\ ksLog' = Append(ksLog, "AddressFromKey")
           /\ IF a.err
              THEN /\ KsFail("derive")
                   /\ UNCHANGED <<ownerAddress, lumeraAddress, derived>>
              ELSE /\ derived' = derived \cup {[name |-> name, hrp |-> hrp, addr |-> a.addr]}
                   /\ IF ksPc = "deriveOwner"
                      THEN /\ ownerAddress' = a.addr
                           /\ ksPc' = "deriveLumera"
                           /\ UNCHANGED lumeraAddress
                      ELSE /\ lumeraAddress' = a.addr
                           /\ ksPc' = "cascadeNew"
                           /\ UNCHANGED ownerAddress
                   /\ UNCHANGED ksErr
    /\ UNCHANGED <<ksFrame, krParams>>

\* cascade.New: the network client is created on the opened keystore.
KsCascadeNew ==
    /\ ksPc = "cascadeNew"
    /\ ksLog' = Append(ksLog, "cascade.New")
    /\ \E o \in {"ok", "err"} :
          IF o = "ok" THEN ksPc' = "done" /\ UNCHANGED ksErr ELSE KsFail("cascade")
    /\ UNCHANGED <<ksFrame, krParams, ownerAddress, lumeraAddress, derived>>

\* The tool is started again and constructs its client over the same
\* keystore and configuration.
KsRebuild ==
    /\ ksPc \in {"done", "failed"}
    /\ builds < MaxBuilds
    /\ builds' = builds + 1
    /\ ksPc' = "newControllerKeyring"
    /\ ksLog' = <<>>
    /\ ksErr' = ""
    /\ ownerAddress' = NoAddr
    /\ lumeraAddress' = NoAddr
    /\ krParams' = NoParams
    /\ UNCHANGED <<commandVars, reader, json, more, config, loaded, confPc, validated,
                   fileReads, keystore, built, derived>>

KeysNext ==
    \/ KsOpenKeyring
    \/ KsValidateKeyType
    \/ KsDerive
    \/ KsCascadeNew
    \/ KsRebuild

KeysSpec == KeysInit /\ [][KeysNext]_vars

\* ------------------------------------------------------- the passphrase reader

\* Longest passphrase, longest buffer handed to Read, and the number of
\* bytes read in one behaviour.
MaxPass == 2
MaxBuf == 3
MaxOut == 8

\* passphraseReader is applied to any of the bounded passphrases; for the
\* empty one it returns nil.  A repeatReader without data is the zero value
\* of the type.
ReaderInit ==
    /\ CommandAt("status", "newCascade", TRUE)
    /\ ConfIdle
    /\ KeysIdle
    /\ rdPass \in BytesUpTo(MaxPass)
    /\ rdData = passphraseReader(rdPass)
    /\ rdNil \in IF rdPass = <<>> THEN BOOLEAN ELSE {FALSE}
    /\ rdPos = 0
    /\ rdOut = <<>>
    /\ rdLast = NoRead
    /\ JsonIdle
    /\ CtxIdle
    /\ dirs = {}
    /\ WrapperIdle

\* The keystore backend prompts: it calls Read with a buffer of length k.
\* On a nil reader there is nothing to call.
ReadStep ==
    /\ ~rdNil
    /\ \E k \in 0..MaxBuf :
          /\ Len(rdOut) + k <= MaxOut
          /\ LET r == Read(rdData, rdPos, k) IN
             /\ rdPos' = r.pos
             /\ rdOut' = rdOut \o r.out
             /\ rdLast' = [k |-> k, n |-> r.n, err |-> r.err]
    /\ UNCHANGED <<commandVars, conf, keys, json, more, rdPass, rdNil, rdData>>

ReaderNext == ReadStep

ReaderSpec == ReaderInit /\ [][ReaderNext]_vars

\* --------------------------------------------------------- the JSON round trip

\* Longest text of a field drawn freely.
MaxText == 2

\* A command has reached writeJSON with a payload of one of the shapes,
\* over the bounded texts.
JsonInit ==
    /\ CommandAt("upload", "writeJSON", TRUE)
    /\ ConfIdle
    /\ KeysIdle
    /\ ReaderIdle
    /\ \E shape \in PayloadShapes, s \in Texts(MaxText), t \in Texts(1),
          pub \in BOOLEAN :
          encPayload = PayloadOf(shape, s, t, pub)
    /\ encOut = <<>>
    /\ decoded = NoDecode
    /\ jsonPc = "encode"
    /\ CtxIdle
    /\ dirs = {}
    /\ WrapperIdle

\* writeJSON: the encoder writes the payload to stdout.
JsonEncode ==
    /\ jsonPc = "encode"
    /\ encOut' = Encode(encPayload)
    /\ jsonPc' = "written"
    /\ UNCHANGED <<commandVars, conf, keys, reader, more, encPayload, decoded>>

\* A consumer of the output parses what was written.
JsonDecode ==
    /\ jsonPc = "written"
    /\ decoded' = Decode(encOut)
    /\ jsonPc' = "read"
    /\ UNCHANGED <<commandVars, conf, keys, reader, more, encPayload, encOut>>

JsonNext ==
    \/ JsonEncode
    \/ JsonDecode

JsonSpec == JsonInit /\ [][JsonNext]_vars

\* ------------------------------------------------ a command under its context

\* The last tick of the clock.
MaxClock == 4

\* A handler has loaded its configuration and is about to call
\* commandContext; the context cobra hands it carries a deadline or none.
CtxInit ==
    /\ \E c \in Commands : CommandAt(c, "loadConfig", FALSE)
    /\ ConfIdle
    /\ KeysIdle
    /\ ReaderIdle
    /\ JsonIdle
    /\ clock = 0
    /\ parent \in 0..MaxClock
    /\ cctx = NoCtx
    /\ under = <<>>
    /\ todo \in HandlerCalls(cmd)
    /\ dirs = {}
    /\ WrapperIdle

ctxFrame == <<commandVars, conf, keys, reader, json, dirs, wrapper, parent>>

\* Time passes.
CtxTick ==
    /\ clock < MaxClock
    /\ clock' = clock + 1
    /\ UNCHANGED <<ctxFrame, cctx, under, todo>>

\* ctx, cancel := commandContext(cmd)
CtxEstablish ==
    /\ cctx = NoCtx
    /\ cctx' = commandContext(parent, clock)
    /\ UNCHANGED <<ctxFrame, clock, under, todo>>

\* The handler makes its next blocking call, handing it ctx.  A call made
\* at or after the deadline is cancelled; a call that fails ends the handler.
CtxCall ==
    /\ cctx # NoCtx
    /\ todo # <<>>
    /\ \E o \in IF clock >= cctx.deadline THEN {"cancelled"} ELSE {"ok", "err"} :
          /\ under' = Append(under, [call |-> Head(todo), ctx |-> cctx, at |-> clock,
                                     outcome |-> o])
          /\ todo' = IF o = "ok" THEN Tail(todo) ELSE <<>>
    /\ UNCHANGED <<ctxFrame, clock, cctx>>

CtxNext ==
    \/ CtxTick
    \/ CtxEstablish
    \/ CtxCall

CtxSpec == CtxInit /\ [][CtxNext]_vars

\* ------------------------------------------------ building the controller

\* The number of calls made on Controller values in one behaviour.
MaxCalls == 2

\* NewICAController is entered with any of the bounded gas prices, with or
\* without a nil argument.
WrapperInit ==
    /\ CommandAt("approve", "newController", TRUE)
    /\ ConfIdle
    /\ KeysIdle
    /\ ReaderIdle
    /\ JsonIdle
    /\ CtxIdle
    /\ dirs = {}
    /\ gasPrices \in GasPriceValues
    /\ nilArg \in {"", "context", "config", "keyring"}
    /\ icaPc = "args"
    /\ icaErr = ""
    /\ fee = NoFee
    /\ innerLog = <<>>
    /\ rets = <<>>

wrapperFrame == <<commandVars, conf, keys, reader, json, cx, dirs, gasPrices, nilArg>>

\* NewICAController returns nil and the error e.
IcaFail(e) ==
    /\ icaErr' = e
    /\ icaPc' = "failed"

\* The nil checks of the arguments.
IcaCheckArgs ==
    /\ icaPc = "args"
    /\ IF nilArg # "" THEN IcaFail(nilArg) ELSE icaPc' = "parse" /\ UNCHANGED icaErr
    /\ UNCHANGED <<wrapperFrame, fee, innerLog, rets>>

\* parseGasPrices, whose result goes into the controller configuration.
IcaParseGasPrices ==
    /\ icaPc = "parse"
    /\ LET g == parseGasPrices(gasPrices) IN
       IF g.err # ""
       THEN IcaFail("gas_prices") /\ UNCHANGED fee
       ELSE /\ fee' = [price |-> g.price, denom |-> g.denom]
            /\ icaPc' = "new"
            /\ UNCHANGED icaErr
    /\ UNCHANGED <<wrapperFrame, innerLog, rets>>

\* ica.NewController with the configuration; its error is returned as it is.
IcaNewController ==
    /\ icaPc = "new"
    /\ innerLog' = Append(innerLog, "NewController")
    /\ \E o \in {"ok", "err"} :
          IF o = "ok" THEN icaPc' = "built" /\ UNCHANGED icaErr ELSE IcaFail("inner")
    /\ UNCHANGED <<wrapperFrame, fee, rets>>

\* A method is called on a Controller value: the nil pointer, a Controller
\* without inner controller, or the one that was built.
WrapperCall ==
    /\ icaPc \in {"built", "failed"}
    /\ Len(rets) < MaxCalls
    /\ \E c \in IF icaPc = "built" THEN Receivers ELSE Receivers \ {"live"}, m \in Methods :
          IF Uninitialized(c)
          THEN /\ rets' = Append(rets, [recv |-> c, method |-> m, ret |-> GuardReturn(m)])
               /\ UNCHANGED innerLog
          ELSE /\ innerLog' = Append(innerLog, m)
               /\ \E r \in InnerReturns(m) :
                     rets' = Append(rets, [recv |-> c, method |-> m, ret |-> r])
    /\ UNCHANGED <<wrapperFrame, icaPc, icaErr, fee>>

WrapperNext ==
    \/ IcaCheckArgs
    \/ IcaParseGasPrices
    \/ IcaNewController
    \/ WrapperCall

WrapperSpec == WrapperInit /\ [][WrapperNext]_vars

\* ======================================================= properties

\* The collaborator calls this invocation has made.
Calls == {log[i] : i \in 1..Len(log)}

\* How many times this invocation has made call c.
Count(c) == Cardinality({i \in 1..Len(log) : log[i] = c})

\* Every call b of this invocation came after a call a.
Before(a, b) ==
    \A j \in 1..Len(log) : log[j] = b => \E i \in 1..(j - 1) : log[i] = a

IsResume == cmd = "upload" /\ TrimSpace(actionIDFlag) # ""
IsFresh == cmd = "upload" /\ TrimSpace(actionIDFlag) = ""

\* The network-facing steps: ledger query, ensure and query of the delegated
\* address (with the inner steps of ensure), send, mesh upload, mesh download.
NetworkSteps ==
    {"GetAction", "EnsureICAAddress", "QueryICA", "Preflight", "RegisterTx", "Poll",
     "ICAAddress", "SendRequestAction", "SendApproveAction", "UploadToSupernode",
     "Download"}

\* The steps of download's file-name lookup, whose failure is tolerated.
BestEffortSteps == IF cmd = "download" THEN {"NewLumeraClient", "GetAction"} ELSE {}

\* The failed steps that are not best-effort.
MandatoryFailed == failed \ BestEffortSteps

\* C1: resume upload - whenever the queried action's state is not Pending,
\* the command has ended with exit code 1 and exactly one diagnostic, a
\* state-mismatch error naming the actual and the expected (Pending) state;
\* UploadToSupernode was not called, no signer reached the mesh, and
\* nothing was written to the output stream.
C1_ResumeNotPendingAborts ==
    (IsResume /\ action # NoAction /\ action.State # ActionStatePending) =>
        /\ pc = "done"
        /\ exitCode = 1
        /\ stderr = <<Diag("state-mismatch", action.State, ActionStatePending)>>
        /\ "UploadToSupernode" \notin Calls
        /\ meshSigner = ""
        /\ stdout = <<>>

C1_Witness ==
    /\ IsResume
    /\ "GetAction" \in Calls
    /\ action # NoAction
    /\ action.State = "DONE"
    /\ stderr = <<Diag("state-mismatch", "DONE", ActionStatePending)>>

\* C2: fresh upload - when the send has failed (broadcast rejected, no
\* acknowledgment in time, or a host-side execution error in the
\* acknowledgment) the command has ended with exit code 1 and a send-class
\* diagnostic and UploadToSupernode was not called; and whenever the mesh
\* upload is about to start or has been called, the send was acknowledged
\* and returned an action id.
C2_SendFailureAbortsBeforeMesh ==
    IsFresh =>
        /\ sendResult \in {"broadcast", "acktimeout", "hostexec"} =>
              /\ pc = "done"
              /\ exitCode = 1
              /\ stderr = <<Diag("send", "", "")>>
              /\ "UploadToSupernode" \notin Calls
              /\ stdout = <<>>
        /\ (pc = "upload_mesh" \/ "UploadToSupernode" \in Calls) =>
              /\ sendResult = "ok"
              /\ res.ActionID # ""

C2_Witness ==
    /\ IsFresh
    /\ sendResult = "hostexec"
    /\ pc = "done"
    /\ "UploadToSupernode" \notin Calls

\* C3: EnsureICAAddress is idempotent - a registration transaction is
\* submitted only when the query found no delegated account; and when an
\* earlier call has returned an address, a later call submits no
\* registration transaction and the address it returns is that address.
C3_EnsureIdempotent ==
    /\ "RegisterTx" \in Calls => queried = ""
    /\ ("EnsureICAAddress" \in Calls /\ prevReturned # "") =>
          /\ "RegisterTx" \notin Calls
          /\ icaAddr \in {"", prevReturned}
          /\ ("EnsureICAAddress" \notin failed /\ pc # "ensure_query")
                => icaAddr = prevReturned

C3_Witness ==
    /\ run = 2
    /\ prevReturned = ICAAddr
    /\ regTxCount = 1
    /\ icaAddr = ICAAddr
    /\ "QueryICA" \in Calls
    /\ "RegisterTx" \notin Calls

\* C4: EnsureICAAddress with no delegated account - when the preflight
\* found the connection missing or without a client, or the client not
\* active, the command has ended with exit code 1 and a precondition
\* diagnostic, and no registration transaction was submitted.
C4_PreflightFailureNoRegistration ==
    (preflight # <<>> /\ (preflight[1] # "open" \/ preflight[2] # "Active")) =>
        /\ queried = ""
        /\ pc = "done"
        /\ exitCode = 1
        /\ stderr = <<Diag("precondition", "", "")>>
        /\ "RegisterTx" \notin Calls
        /\ icaAddr = ""

C4_Witness ==
    /\ preflight = <<"open", "Expired">>
    /\ queried = ""
    /\ pc = "done"
    /\ stderr = <<Diag("precondition", "", "")>>

\* What holds of the poll in every state: when the poll has given up, the
\* deadline had passed, the diagnostic is a timeout and no address was
\* returned; when EnsureICAAddress has returned after a registration, the
\* address is the one now on the chain and is not empty.
PollSafe ==
    /\ "Poll" \in failed =>
          /\ ctxDone
          /\ pc = "done"
          /\ exitCode = 1
          /\ stderr = <<Diag("timeout", "", "")>>
          /\ icaAddr = ""
    /\ ("RegisterTx" \in Calls /\ failed \cap {"RegisterTx", "Poll"} = {}
            /\ pc # "ensure_poll") =>
          /\ icaAddr # ""
          /\ icaAddr = icaAccount

\* C5: EnsureICAAddress after a registration - the poll always ends: it
\* returns the address once it is observable, or a timeout error once the
\* deadline has passed; it never goes on for ever and never returns an
\* empty address.
C5_PollEnds == []PollSafe /\ (pc = "ensure_poll" ~> pc # "ensure_poll")

C5_Witness ==
    /\ "RegisterTx" \in Calls
    /\ "Poll" \in failed
    /\ stderr = <<Diag("timeout", "", "")>>

\* C6: approve never registers a delegated account; and when it queried the
\* address (no --ica-address) while no account was registered, the command
\* has ended with exit code 1 on the error of the query (not-found, unless
\* the query itself could not be made), and no approval message was built
\* or sent.
C6_ApproveNeverRegisters ==
    cmd = "approve" =>
        /\ Calls \cap {"EnsureICAAddress", "QueryICA", "Preflight", "RegisterTx"} = {}
        /\ ("ICAAddress" \in Calls /\ icaAccount = "") =>
              /\ TrimSpace(icaAddressFlag) = ""
              /\ pc = "done"
              /\ exitCode = 1
              /\ \E k \in {"notfound", "err", "timeout"} : stderr = <<Diag(k, "", "")>>
              /\ ~ctxDone => stderr # <<Diag("timeout", "", "")>>
              /\ Calls \cap {"BuildApproveMsg", "SendApproveAction"} = {}
              /\ msg = NoMsg
              /\ sendResult = ""
              /\ stdout = <<>>

C6_Witness ==
    /\ cmd = "approve"
    /\ "ICAAddress" \in Calls
    /\ icaAccount = ""
    /\ stderr = <<Diag("notfound", "", "")>>

\* C7: fresh upload - the address is resolved before the request message is
\* built, the message is built before it is sent, and the mesh upload comes
\* after the send; each step starts with the result of the one before it:
\* the build with the address, the send with the message, the mesh upload
\* with the action id.
C7_FreshUploadOrder ==
    IsFresh =>
        /\ Before("EnsureICAAddress", "BuildRequestMsg")
        /\ Before("BuildRequestMsg", "SendRequestAction")
        /\ Before("SendRequestAction", "UploadToSupernode")
        /\ pc = "upload_build" => icaAddr # "" /\ "EnsureICAAddress" \notin failed
        /\ pc = "upload_send" => msg.kind = "request" /\ msg.creator = icaAddr
                                    /\ icaAddr # ""
        /\ pc = "upload_mesh" => res.ActionID # "" /\ sendResult = "ok"
        /\ msg # NoMsg => icaAddr # ""
        /\ sendResult # "" => msg # NoMsg
        /\ meshSigner # "" => res.ActionID # ""

C7_Witness ==
    /\ IsFresh
    /\ log = <<"EnsureICAAddress", "QueryICA", "Preflight", "RegisterTx",
               "BuildRequestMsg", "SendRequestAction", "UploadToSupernode">>
    /\ stdout # <<>>

\* C8 as stated: every network-facing step is called at most once per
\* invocation, and the failure of any of them has ended the command.
C8_Original ==
    /\ \A c \in NetworkSteps : Count(c) <= 1
    /\ failed \cap NetworkSteps # {} => pc = "done" /\ exitCode = 1

\* C8: every network-facing step is called at most once per invocation and
\* a failed step is not made again; the failure of any of them but the
\* ledger query of download's file-name lookup has ended the command with
\* exit code 1.
C8_NoRetry ==
    /\ \A c \in NetworkSteps : Count(c) <= 1
    /\ MandatoryFailed \cap NetworkSteps # {} => pc = "done" /\ exitCode = 1
    /\ \A c \in failed \cap NetworkSteps : c \in Calls \/ c \in {"Poll", "StateCheck"}

C8_Witness ==
    /\ IsResume
    /\ "UploadToSupernode" \in failed
    /\ Count("UploadToSupernode") = 1
    /\ pc = "done"

C10_EnrichmentBestEffort ==
    enrich \in {"client", "query", "meta"} =>
        /\ cmd = "download"
        /\ "Download" \in Calls /\ "Download" \notin failed
        /\ fileName = ""
        /\ payload = [status |-> "ok", action_id |-> res.ActionID,
                      task_id |-> res.TaskID, output_path |-> res.OutputPath,
                      file_name |-> ""]
        /\ res.ActionID = argValue /\ res.TaskID # "" /\ res.OutputPath # ""
        /\ pc \in {"writeJSON", "done"}
        /\ pc = "done" =>
              \/ exitCode = 0 /\ stdout = <<payload>> /\ stderr = <<>>
              \/ "writeJSON" \in failed /\ stderr = <<Diag("write", "", "")>>

C10_Witness ==
    /\ cmd = "download"
    /\ enrich = "query"
    /\ "GetAction" \in failed
    /\ exitCode = 0
    /\ stdout # <<>>
    /\ stdout[1].file_name = ""

\* C11: download - the signer handed to the mesh download is the
\* controller owner address and not the delegated account; the flow makes
\* no query, ensure or registration of the delegated account and builds and
\* sends no message through the delegated-account channel.
C11_DownloadSignsAsOwner ==
    cmd = "download" =>
        /\ Calls \cap {"EnsureICAAddress", "QueryICA", "Preflight", "RegisterTx",
                       "ICAAddress", "BuildRequestMsg", "BuildApproveMsg",
                       "SendRequestAction", "SendApproveAction"} = {}
        /\ msg = NoMsg
        /\ sendResult = ""
        /\ icaAddr = ""
        /\ "Download" \in Calls <=> meshSigner # ""
        /\ meshSigner # "" => meshSigner = "owner1" /\ meshSigner # ICAAddr

C11_Witness ==
    /\ cmd = "download"
    /\ icaAccount = ICAAddr
    /\ "Download" \in Calls
    /\ meshSigner = "owner1"
    /\ stdout # <<>>

\* C12: resume upload of a Pending action - the flow builds no controller,
\* makes no ensure, query or registration of the delegated account and no
\* controller-chain send; the signer of the mesh upload is the action's
\* recorded creator; the record reports status ok, an empty tx_hash and the
\* action's creator as ica_address.
C12_ResumeSkipsRegistration ==
    IsResume =>
        /\ Calls \cap {"EnsureICAAddress", "QueryICA", "Preflight", "RegisterTx",
                       "ICAAddress", "BuildRequestMsg", "SendRequestAction",
                       "SendApproveAction"} = {}
        /\ "controller" \notin opened
        /\ "NewICAController" \notin failed
        /\ msg = NoMsg
        /\ sendResult = ""
        /\ icaAddr = ""
        /\ "UploadToSupernode" \in Calls <=> meshSigner # ""
        /\ meshSigner # "" =>
              /\ action.State = "PENDING"
              /\ meshSigner = action.Creator
        /\ stdout # <<>> =>
              /\ "UploadToSupernode" \in Calls
              /\ stdout[1].status = "ok"
              /\ stdout[1].action_id = action.ID
              /\ stdout[1].task_id # ""
              /\ stdout[1].tx_hash = ""
              /\ stdout[1].ica_address = action.Creator

C12_Witness ==
    /\ IsResume
    /\ action.State = "PENDING"
    /\ action.Creator = RegularAddr
    /\ meshSigner = RegularAddr
    /\ stdout # <<>>
    /\ stdout[1].tx_hash = ""

\* A fresh upload is starting while the chain holds no delegated account.
FreshStartNoAccount == IsFresh /\ pc = "start" /\ icaAccount = ""

\* The fresh upload has registered the account, sent the request, uploaded
\* the bytes and reported status ok with an action id, a transaction hash
\* and a task id.
FreshReportedOK ==
    /\ pc = "done"
    /\ exitCode = 0
    /\ log = <<"EnsureICAAddress", "QueryICA", "Preflight", "RegisterTx",
               "BuildRequestMsg", "SendRequestAction", "UploadToSupernode">>
    /\ icaAccount = ICAAddr
    /\ stdout = <<payload>>
    /\ payload.status = "ok"
    /\ payload.action_id # ""
    /\ payload.tx_hash # ""
    /\ payload.task_id # ""
    /\ payload.ica_address = ICAAddr

\* C13: in a behaviour where no step ever fails and the deadline never
\* expires, a fresh upload that starts with no delegated account eventually
\* has registered the account, sent the request, received an action id,
\* uploaded the bytes and reported status ok with non-empty action_id,
\* tx_hash and task_id.
C13_FreshUploadReports ==
    [](failed = {} /\ ~ctxDone) => (FreshStartNoAccount ~> FreshReportedOK)

C13_Witness ==
    /\ FreshReportedOK
    /\ queried = ""
    /\ regTxCount = 1
    /\ failed = {}
    /\ ~ctxDone

\* The handler positions at which a blocking collaborator call whose
\* failure the handler returns is in flight.
MandatoryBlocking ==
    {"resume_getAction", "resume_upload", "ensure_query", "ensure_conn",
     "ensure_register", "ensure_poll", "upload_send", "upload_mesh", "ica_query",
     "approve_send", "download", "status_getAction"}

\* The command has ended on a timeout-class error: a timeout diagnostic, or
\* the send error of an acknowledgment that did not arrive in time.
EndedOnTimeout ==
    /\ pc = "done"
    /\ exitCode = 1
    /\ \/ stderr = <<Diag("timeout", "", "")>>
       \/ stderr = <<Diag("send", "", "")>> /\ sendResult = "acktimeout"

\* C14 as stated: when the deadline expired while any blocking call was in
\* flight, the call is still in flight or the command has ended on a
\* timeout-class error with no record.
C14_Original ==
    expiredAt \in MandatoryBlocking \cup {"enrich_getAction"} =>
        \/ pc = expiredAt /\ stdout = <<>>
        \/ EndedOnTimeout /\ stdout = <<>>

\* C14: when the deadline expired while a blocking call was in flight, other
\* than the ledger query of download's file-name lookup, the call is aborted:
\* it is still in flight, or the command has ended with exit code 1 on a
\* timeout-class error and no record was written.  In the file-name lookup
\* the aborted query only leaves file_name empty.
C14_DeadlineAborts ==
    /\ expiredAt \in MandatoryBlocking =>
          \/ pc = expiredAt /\ stdout = <<>> /\ exitCode = -1
          \/ EndedOnTimeout /\ stdout = <<>>
    /\ (expiredAt = "enrich_getAction" /\ pc # expiredAt) =>
          /\ enrich = "query"
          /\ "GetAction" \in failed
          /\ payload.file_name = ""

C14_Witness ==
    /\ cmd = "download"
    /\ expiredAt = "download"
    /\ "Download" \in failed
    /\ EndedOnTimeout
    /\ stdout = <<>>
    /\ res = NoRes

\* C15: when the command has returned - with its record, with an error at
\* any step, or after the deadline expired - every client it opened
\* (cascade client, controller, ledger client) has been closed; only opened
\* clients are closed, and none is closed while the handler still runs.
C15_ClientsClosed ==
    /\ closed \subseteq opened
    /\ opened \subseteq {"cascade", "controller", "ledger"}
    /\ pc = "done" => closed = opened
    /\ pc # "done" => closed = {}

C15_Witness ==
    /\ cmd = "download"
    /\ pc = "done"
    /\ ctxDone
    /\ exitCode = 0
    /\ opened = {"cascade", "controller", "ledger"}
    /\ closed = {"cascade", "controller", "ledger"}

In(f) == config.fields[f]

\* LoadConfig has been applied to a file that decodes and whose paths expand.
Loaded == confPc # "file" /\ config.decodes /\ ~config.homeErr

\* Required field number i of the file is blank after trimming.
IsBlank(i) == TrimSpace(In(RequiredFields[i])) = ""

\* What the file sets, read off its fields.
LogLevelKnown ==
    ToLower(TrimSpace(In("lumera.log_level")))
        \in {"", "debug", "info", "warn", "error", "warning"}
BackendOf == ToLower(TrimSpace(In("controller.keyring_backend")))
DirBlank == TrimSpace(In("controller.keyring_dir")) = ""
PlainSet == TrimSpace(In("controller.keyring_passphrase_plain")) # ""
FileSet == TrimSpace(In("controller.keyring_passphrase_file")) # ""

\* C17 as stated: a file with a required field blank fails to load with an
\* error naming that field, and a file with every required field set and
\* at most one passphrase source loads.
C17_Original ==
    Loaded =>
        /\ \A i \in 1..Len(RequiredFields) :
              IsBlank(i) => loaded.err = Err("required", RequiredFields[i])
        /\ ((\A i \in 1..Len(RequiredFields) : ~IsBlank(i)) /\ ~(PlainSet /\ FileSet))
              => loaded.err = NoErr

\* C17: a file with a required field blank after trimming fails to load,
\* and when its log level is acceptable the error names the first such
\* field in the order of the checks; a file loads exactly when its log
\* level is acceptable, every required field is set, at most one
\* passphrase source is set, the backend is os, file or test, the file
\* backend has a keyring_dir, and a passphrase file that is set can be read
\* and is not empty.
C17_RequiredFields ==
    Loaded =>
        /\ \A i \in 1..Len(RequiredFields) :
              IsBlank(i) =>
                 /\ loaded.err # NoErr
                 /\ loaded.cfg = <<>>
                 /\ (LogLevelKnown /\ \A j \in 1..(i - 1) : ~IsBlank(j))
                       => loaded.err = Err("required", RequiredFields[i])
        /\ loaded.err = NoErr <=>
              /\ LogLevelKnown
              /\ \A i \in 1..Len(RequiredFields) : ~IsBlank(i)
              /\ ~(PlainSet /\ FileSet)
              /\ BackendOf \in {"os", "file", "test"}
              /\ BackendOf = "file" => ~DirBlank
              /\ FileSet => In("controller.keyring_passphrase_file") \in {"/ok", "/pw "}

C17_Witness ==
    /\ Loaded
    /\ In("controller.account_hrp") = " "
    /\ In("lumera.log_level") = "debug"
    /\ loaded.err = Err("required", "controller.account_hrp")

\* C18: a file in which both keyring_passphrase_plain and
\* keyring_passphrase_file are set fails to load, whatever its other
\* fields hold, and no keystore is opened from it.
C18_PassphraseExclusive ==
    (confPc # "file" /\ PlainSet /\ FileSet) =>
        /\ loaded.err # NoErr
        /\ loaded.cfg = <<>>
        /\ confPc = "loaded"
        /\ krParams = NoParams

C18_Witness ==
    /\ confPc = "loaded"
    /\ In("controller.keyring_passphrase_plain") = "p"
    /\ In("controller.keyring_passphrase_file") = "/ok"
    /\ loaded.err = Err("exclusive", "controller.keyring_passphrase_plain")

\* C19 as stated: debug, info, warn and error are stored unchanged,
\* warning is stored as warn, and a file with any other log_level fails to
\* load.
C19_Original ==
    Loaded =>
        LET l == In("lumera.log_level") IN
        /\ (l \in {"debug", "info", "warn", "error"} /\ loaded.err = NoErr)
              => loaded.cfg["lumera.log_level"] = l
        /\ (l = "warning" /\ loaded.err = NoErr)
              => loaded.cfg["lumera.log_level"] = "warn"
        /\ l \in {"debug", "info", "warn", "error", "warning"}
              => loaded.err.field # "lumera.log_level"
        /\ l \notin {"debug", "info", "warn", "error", "warning"}
              => loaded.err # NoErr

\* C19: log_level is trimmed and lower-cased; then debug, info, warn and
\* error are stored as they are, warning is stored as warn, an empty value
\* is stored as info, and any other value makes the load fail with an error
\* naming log_level.  A log_level that is accepted is never the reason a
\* load fails.
C19_LogLevel ==
    Loaded =>
        LET n == ToLower(TrimSpace(In("lumera.log_level"))) IN
        /\ (n \in {"debug", "info", "warn", "error"} /\ loaded.err = NoErr)
              => loaded.cfg["lumera.log_level"] = n
        /\ (n = "warning" /\ loaded.err = NoErr)
              => loaded.cfg["lumera.log_level"] = "warn"
        /\ (n = "" /\ loaded.err = NoErr)
              => loaded.cfg["lumera.log_level"] = "info"
        /\ n \in {"", "debug", "info", "warn", "error", "warning"}
              => loaded.err.field # "lumera.log_level"
        /\ n \notin {"", "debug", "info", "warn", "error", "warning"}
              => loaded.err = Err("invalid", "lumera.log_level")

C19_Witness ==
    /\ Loaded
    /\ In("lumera.log_level") = "warning"
    /\ loaded.err = NoErr
    /\ loaded.cfg["lumera.log_level"] = "warn"

\* C20: a file with the file backend and no keyring_dir fails to load; a
\* file with the test backend and no keyring_dir does not fail on the
\* keyring_dir, and when it loads the keystore is opened with the test
\* backend in the directory of the home setting.
C20_KeyringDir ==
    (Loaded /\ DirBlank) =>
        /\ BackendOf = "file" => loaded.err # NoErr /\ confPc = "loaded"
        /\ BackendOf = "test" =>
              /\ loaded.err.field # "controller.keyring_dir"
              /\ (\A i \in 1..Len(RequiredFields) : ~IsBlank(i))
                    /\ LogLevelKnown /\ ~PlainSet /\ ~FileSet
                    => loaded.err = NoErr
              /\ (confPc = "keyring" /\ ~krParams.err) =>
                    /\ krParams.backend = "test"
                    /\ krParams.dir = TrimSpace(In("controller.home"))

C20_Witness ==
    /\ confPc = "keyring"
    /\ In("controller.keyring_backend") = "test"
    /\ In("controller.keyring_dir") = ""
    /\ In("controller.home") = "/h"
    /\ krParams.dir = "/h"
    /\ ~krParams.err

\* C21: action status is read-only - in every invocation of it the only
\* collaborator call is the ledger query of the action record; it builds no
\* controller, makes no ensure, query or registration of the delegated
\* account, builds and sends no message through the delegated-account
\* channel, and hands no signer to the mesh for an upload or a download.
C21_StatusReadOnly ==
    cmd = "status" =>
        /\ Calls \subseteq {"GetAction"}
        /\ Count("GetAction") <= 1
        /\ opened \subseteq {"cascade", "ledger"}
        /\ "NewICAController" \notin failed
        /\ icaAddr = "" /\ icaAddress = ""
        /\ queried = "none" /\ preflight = <<>>
        /\ msg = NoMsg
        /\ sendResult = ""
        /\ meshSigner = ""
        /\ res = NoRes
        /\ stdout # <<>> => stdout = <<StatusPayload(action)>> /\ log = <<"GetAction">>

C21_Witness ==
    /\ cmd = "status"
    /\ icaAccount = ""
    /\ regTxCount = 0
    /\ log = <<"GetAction">>
    /\ exitCode = 0
    /\ stdout = <<StatusPayload(action)>>

\* C22: approve - with a non-blank --ica-address the address query is not
\* made, and the value of the flag, as it was given, is the creator of the
\* approval message and the ica_address of the record; with a blank
\* --ica-address the message is only built after the query has returned,
\* and its creator, and the ica_address of the record, is the address the
\* query returned: the delegated account the chain holds.
C22_ApproveOverride ==
    cmd = "approve" =>
        /\ TrimSpace(icaAddressFlag) # "" =>
              /\ "ICAAddress" \notin Calls
              /\ "ICAAddress" \notin failed
              /\ icaAddress = icaAddressFlag
              /\ msg # NoMsg => msg.kind = "approve" /\ msg.creator = icaAddressFlag
              /\ stdout # <<>> => stdout[1].ica_address = icaAddressFlag
        /\ TrimSpace(icaAddressFlag) = "" =>
              /\ msg # NoMsg =>
                    /\ Before("ICAAddress", "BuildApproveMsg")
                    /\ "ICAAddress" \in Calls
                    /\ "ICAAddress" \notin failed
                    /\ msg.kind = "approve"
                    /\ msg.creator = icaAccount
                    /\ msg.creator = "ica1"
              /\ stdout # <<>> => stdout[1].ica_address = "ica1"
        /\ msg # NoMsg => msg.actionID = argValue

C22_Witness ==
    /\ cmd = "approve"
    /\ icaAddressFlag = " icaX "
    /\ icaAccount = ICAAddr
    /\ log = <<"BuildApproveMsg", "SendApproveAction">>
    /\ msg.creator = " icaX "
    /\ stdout # <<>>
    /\ stdout[1].ica_address = " icaX "

\* C23: fresh upload - the creator of the action-request message, the
\* signer of the mesh upload and the ica_address of the record are all the
\* address EnsureICAAddress returned, which is the delegated account and
\* not the controller owner address; whichever of the three exist agree.
C23_FreshUsesICAAddress ==
    IsFresh =>
        /\ icaAddr # "" =>
              /\ "EnsureICAAddress" \in Calls
              /\ "EnsureICAAddress" \notin failed
              /\ icaAddr = ensureReturned
              /\ icaAddr = icaAccount
              /\ icaAddr # "owner1"
        /\ msg # NoMsg =>
              /\ msg.kind = "request"
              /\ icaAddr # ""
              /\ msg.creator = icaAddr
        /\ meshSigner # "" =>
              /\ msg # NoMsg
              /\ meshSigner = icaAddr
              /\ meshSigner = msg.creator
        /\ stdout # <<>> =>
              /\ meshSigner # ""
              /\ stdout[1].ica_address = icaAddr
              /\ stdout[1].ica_address = msg.creator
              /\ stdout[1].ica_address = meshSigner
              /\ stdout[1].ica_owner_address = "owner1"
              /\ stdout[1].ica_address # stdout[1].ica_owner_address

C23_Witness ==
    /\ IsFresh
    /\ "RegisterTx" \in Calls
    /\ icaAddr = ICAAddr
    /\ msg.creator = ICAAddr
    /\ meshSigner = ICAAddr
    /\ stdout # <<>>
    /\ stdout[1].ica_address = ICAAddr

\* The configuration NewCascadeClient was handed.
Cfg(f) == config.fields[f]

\* A key the configuration refers to is absent from the keystore, or its
\* algorithm is not the one its configured key type names.
KeyUnfit(keyName, keyType) ==
    \/ keystore[keyName] = "absent"
    \/ keystore[keyName] # (CASE keyType = "cosmos" -> "secp256k1"
                              [] keyType = "evm" -> "eth_secp256k1"
                              [] OTHER -> "none")

SomeKeyUnfit ==
    \/ KeyUnfit(Cfg("controller.key_name"), Cfg("controller.key_type"))
    \/ KeyUnfit(Cfg("lumera.key_name"), Cfg("lumera.key_type"))

\* The keystore is open and the construction has gone past the point
\* where the key types are checked.
PastValidation ==
    /\ "NewKeyring" \in {ksLog[i] : i \in 1..Len(ksLog)}
    /\ ksPc \notin {"newControllerKeyring", "validateController", "validateLumera"}
    /\ ksErr # "keyring"

\* C24 as stated: once the keystore is open, when the controller key or the
\* host key is absent or of another algorithm than its configured type, the
\* construction has failed, no address was derived and no network client
\* was created.
C24_Original ==
    (PastValidation /\ SomeKeyUnfit) =>
        /\ ksPc = "failed"
        /\ ksErr \in {"keytype", "notfound", "mismatch"}
        /\ ownerAddress = NoAddr
        /\ lumeraAddress = NoAddr
        /\ derived = {}
        /\ \A i \in 1..Len(ksLog) : ksLog[i] \notin {"AddressFromKey", "cascade.New"}

\* What holds of the definition that calls validateKeyType: the statement
\* of C24 for the builds of the current construction.
C24_ValidatingDefinition ==
    (built = "validating" /\ PastValidation /\ SomeKeyUnfit) =>
        /\ ksPc = "failed"
        /\ ksErr \in {"keytype", "notfound", "mismatch"}
        /\ ownerAddress = NoAddr
        /\ lumeraAddress = NoAddr
        /\ \A i \in 1..Len(ksLog) : ksLog[i] \notin {"AddressFromKey", "cascade.New"}

C24_Witness ==
    /\ built = "validating"
    /\ Cfg("lumera.key_name") = "k2"
    /\ keystore = [n \in KeyNames |-> IF n = "k1" THEN "secp256k1" ELSE "eth_secp256k1"]
    /\ Cfg("controller.key_type") = "cosmos"
    /\ Cfg("lumera.key_type") = "cosmos"
    /\ ksLog = <<"NewKeyring", "validateKeyType", "validateKeyType">>
    /\ ksErr = "mismatch"

\* C25: the passphrase reader is cyclic - for a non-empty passphrase the
\* reader holds the passphrase followed by a newline; every Read of a
\* buffer of length k returns k bytes and no error, never end of input;
\* and byte number i of all the bytes delivered so far, counted from 0, is
\* byte (i mod L) of the passphrase followed by a newline, L its length.
C25_ReaderCyclic ==
    rdPass # <<>> =>
        LET line == rdPass \o <<"\n">>
            L == Len(rdPass) + 1
        IN  /\ rdData = line
            /\ rdLast.n = rdLast.k
            /\ rdLast.err = ""
            /\ rdPos \in 0..L
            /\ \A i \in 0..(Len(rdOut) - 1) : rdOut[i + 1] = line[(i % L) + 1]

C25_Witness ==
    /\ rdPass = <<"a", "b">>
    /\ rdOut = <<"a", "b", "\n", "a", "b", "\n", "a">>
    /\ rdLast = [k |-> 2, n |-> 2, err |-> ""]

\* C26 as stated: when the call of Validate has returned an error, the
\* configuration it was called on holds what it held before the call.
C26_Original ==
    (validated # NoValidate /\ validated.err # NoErr) =>
        validated.after = validated.before

\* What holds of a failed Validate: it has rewritten at most log_level and
\* keyring_backend, each to its normalized value, and LoadConfig hands the
\* configuration to nobody.
C26_FailedValidate ==
    (validated # NoValidate /\ validated.err # NoErr) =>
        /\ \A f \in DOMAIN validated.before :
              f \notin {"lumera.log_level", "controller.keyring_backend"}
                 => validated.after[f] = validated.before[f]
        /\ validated.after["lumera.log_level"] \in
              {validated.before["lumera.log_level"], "info", "warn"}
        /\ loaded.cfg = <<>>

C26_Witness ==
    /\ validated # NoValidate
    /\ validated.before["lumera.log_level"] = " Warning "
    /\ validated.before["lumera.chain_id"] = ""
    /\ validated.err = Err("required", "lumera.chain_id")
    /\ validated.after["lumera.log_level"] = "warn"

\* C27: a passphrase file that is set is read by Load: a load that
\* succeeds has read it, and a load of a file whose passphrase file is
\* unreadable or blank fails.  The keystore, which every client is built
\* on, is only opened after a load has succeeded.  Load reads the
\* configuration file and at most the passphrase file, and changes nothing
\* of the command: nothing is opened, called or written by it.
C27_PassphraseFileEager ==
    confPc # "file" =>
        LET pf == In("controller.keyring_passphrase_file")
            during == SubSeq(fileReads, 1, IF Len(fileReads) < 2 THEN Len(fileReads) ELSE 2)
        IN  /\ (Loaded /\ FileSet /\ pf \in {"/missing", "/empty"}) =>
                  /\ loaded.err # NoErr
                  /\ confPc = "loaded"
                  /\ krParams = NoParams
            /\ (loaded.err = NoErr /\ FileSet) => during = <<"config.toml", pf>>
            /\ ~FileSet => during = <<"config.toml">>
            /\ during[1] = "config.toml"
            /\ \A i \in 1..Len(during) : during[i] \in {"config.toml", pf}
            /\ confPc = "loaded" => fileReads = during
            /\ confPc = "keyring" => loaded.err = NoErr
            /\ opened = {} /\ krOpens = 0 /\ log = <<>> /\ stdout = <<>> /\ stderr = <<>>

C27_Witness ==
    /\ confPc = "loaded"
    /\ In("controller.keyring_passphrase_file") = "/empty"
    /\ In("controller.keyring_passphrase_plain") = " "
    /\ fileReads = <<"config.toml", "/empty">>
    /\ loaded.err = Err("empty", "controller.keyring_passphrase_file")

\* C28: once the keystore parameters are built, the application name is
\* the base name of the binary when a binary is configured (the last
\* element of its path, trailing separators dropped), otherwise the
\* controller chain id when one is configured, otherwise "lumera".
C28_KeyringAppName ==
    (ksPc # "newControllerKeyring" /\ ~krParams.err) =>
        LET bin == Cfg("controller.binary")
            ch  == Cfg("controller.chain_id")
            app == krParams.appName
        IN  /\ bin = "osmosisd" => app = "osmosisd"
            /\ bin = "/usr/bin/osmosisd" => app = "osmosisd"
            /\ bin = "bin/simd/" => app = "simd"
            /\ bin = "/" => app = "/"
            /\ bin = " " => app = " "
            /\ (bin = "" /\ ch # "") => app = ch
            /\ (bin = "" /\ ch = "") => app = "lumera"

C28_Witness ==
    /\ ksPc = "done"
    /\ Cfg("controller.binary") = "/usr/bin/osmosisd"
    /\ Cfg("controller.chain_id") = "osmosis-1"
    /\ krParams.appName = "osmosisd"

\* The keystore is opened once in a construction, before any address is
\* derived.
OneKeystore ==
    ksLog # <<>> =>
        /\ ksLog[1] = "NewKeyring"
        /\ \A i \in 2..Len(ksLog) : ksLog[i] # "NewKeyring"

Reported ==
    {"status", "action_id", "tx_hash", "task_id", "ica_address", "ica_owner_address"}

\* C29: what writeJSON wrote parses as JSON, and the object read back
\* holds, for status, action id, tx hash, task id and both addresses, the
\* very text the payload held, and no member the payload did not hold.
C29_RoundTrip ==
    jsonPc = "read" =>
        /\ decoded.ok
        /\ \A k \in Reported \cap DOMAIN encPayload :
              \A m \in decoded.obj :
                 m.key = KeyChars(k) =>
                    (m.val.kind = "string" /\ m.val.text = encPayload[k].text)
        /\ {m.key : m \in decoded.obj} = {KeyChars(k) : k \in DOMAIN encPayload}
        /\ Cardinality(decoded.obj) = Cardinality(DOMAIN encPayload)

C29_Witness ==
    /\ jsonPc = "read"
    /\ DOMAIN encPayload = FreshKeys
    /\ encPayload["action_id"].text = <<"\"", "<">>
    /\ encPayload["tx_hash"].text = <<"\\">>
    /\ Len(encOut) > Len(encPayload["action_id"].text)
    /\ [key |-> KeyChars("task_id"), val |-> encPayload["task_id"]] \in decoded.obj

\* C31: the context of a command is the incoming one when that carries a
\* deadline (same deadline, nothing to cancel), and otherwise one whose
\* deadline lies the default timeout after the moment it was made, which
\* is before the first blocking call.  Every blocking call of the command
\* was handed that one context, and none made at or after its deadline
\* went through.
C31_OneDeadline ==
    /\ (cctx # NoCtx /\ parent # 0) => (cctx.deadline = parent /\ cctx.cancel = "noop")
    /\ (cctx # NoCtx /\ parent = 0) =>
          /\ cctx.cancel = "timer"
          /\ cctx.deadline \in defaultCommandTimeout..(clock + defaultCommandTimeout)
          /\ \A i \in 1..Len(under) : cctx.deadline <= under[i].at + defaultCommandTimeout
    /\ \A i \in 1..Len(under) :
          /\ cctx # NoCtx
          /\ under[i].ctx = cctx
          /\ under[i].at >= cctx.deadline <=> under[i].outcome = "cancelled"

C31_Witness ==
    /\ cmd = "download"
    /\ parent = 3
    /\ cctx.deadline = 3
    /\ Len(under) = 3
    /\ under[1].at = 1
    /\ under[2].outcome = "ok"
    /\ under[3].outcome = "cancelled"

\* C32: in the record an upload has written, the resume path reports
\* is_public exactly when the action's metadata is non-nil Cascade
\* metadata, with the metadata's flag whatever --public was; the fresh
\* path always reports is_public, with the value of --public.
C32_VisibilityFlag ==
    (cmd = "upload" /\ Len(stdout) = 1) =>
        LET out == stdout[1] IN
        /\ IsResume =>
              /\ "is_public" \in DOMAIN out <=> action.MetaKind = "cascade"
              /\ "is_public" \in DOMAIN out => out.is_public = action.Public
        /\ IsFresh =>
              /\ "is_public" \in DOMAIN out
              /\ out.is_public = public

C32_Witness ==
    /\ IsResume
    /\ Len(stdout) = 1
    /\ action.MetaKind = "cascade"
    /\ action.Public
    /\ ~public
    /\ stdout[1].is_public

\* The lower-cased, trimmed backend of the file, read off the bounded values.
BackendToken ==
    CASE In("controller.keyring_backend") = " File " -> "file"
      [] OTHER -> In("controller.keyring_backend")

\* Nothing but the backend can make this file fail.
OnlyBackendMatters ==
    /\ \A i \in 1..Len(RequiredFields) : ~IsBlank(i)
    /\ In("lumera.log_level") \in {"", "debug", "info", "warn", "error", "warning"}
    /\ ~PlainSet
    /\ ~FileSet
    /\ ~DirBlank

\* C33: a file whose backend, trimmed and lower-cased, is none of os, file
\* and test never loads, and fails on the backend when nothing before it
\* fails; a file whose backend is one of them, in any case and with blanks
\* around it, loads when nothing else is wrong, and a loaded configuration
\* holds the lower-case token, which is what the keystore is opened with.
C33_KeyringBackend ==
    Loaded =>
        /\ BackendToken \notin {"os", "file", "test"} =>
              /\ loaded.err # NoErr
              /\ confPc = "loaded"
              /\ OnlyBackendMatters /\ BackendToken # "" =>
                    loaded.err = Err("invalid", "controller.keyring_backend")
        /\ (BackendToken \in {"os", "file", "test"} /\ OnlyBackendMatters) =>
              loaded.err = NoErr
        /\ loaded.err = NoErr =>
              /\ loaded.cfg["controller.keyring_backend"] = BackendToken
              /\ BackendToken \in {"os", "file", "test"}
        /\ (confPc = "keyring" /\ ~krParams.err) => krParams.backend = BackendToken

C33_Witness ==
    /\ confPc = "keyring"
    /\ In("controller.keyring_backend") = " File "
    /\ loaded.err = NoErr
    /\ loaded.cfg["controller.keyring_backend"] = "file"
    /\ krParams.backend = "file"

\* An invocation that has ended has exactly one of the two outcomes: one
\* record on the output stream, nothing on the error stream and exit code
\* 0, or a diagnostic on the error stream, nothing on the output stream
\* and exit code 1.  One that has not ended has written nothing and has
\* no exit code.
OneOutcome ==
    IF pc = "done"
    THEN \/ exitCode = 0 /\ Len(stdout) = 1 /\ stderr = <<>>
         \/ exitCode = 1 /\ stdout = <<>> /\ stderr # <<>>
    ELSE exitCode = -1 /\ stdout = <<>> /\ stderr = <<>>

\* C34: when every call in flight returns or is cancelled by the deadline
\* and the handler takes its next step, every invocation, of any command
\* with any input, ends, and it ends in exactly one of the two outcomes.
C34_Terminates == []OneOutcome /\ ((pc # "done") ~> (pc = "done"))

C34_Witness ==
    /\ pc = "done"
    /\ cmd = "download"
    /\ ctxDone
    /\ "Download" \in failed
    /\ exitCode = 1
    /\ stdout = <<>>
    /\ stderr = <<Diag("timeout", "", "")>>

\* C35 as stated: a configuration Validate has accepted has at most one
\* passphrase source set, and resolvePassphrase, applied to it with the
\* files unchanged, returns a non-empty passphrase when one source is set
\* and the empty passphrase when none is.
C35_Original ==
    (confPc = "keyring" /\ loaded.err = NoErr) =>
        LET plain == TrimSpace(loaded.cfg["controller.keyring_passphrase_plain"]) # ""
            file == TrimSpace(loaded.cfg["controller.keyring_passphrase_file"]) # ""
        IN  /\ ~(plain /\ file)
            /\ (plain \/ file) => (~krParams.err /\ krParams.pass # "")
            /\ ~(plain \/ file) => (~krParams.err /\ krParams.pass = "")

\* What holds: the exclusivity rule never fails, no source gives the empty
\* passphrase, the plain source gives its trimmed value, and the file
\* source gives the file's trimmed content when the path has no blanks
\* around it; with blanks around the path resolvePassphrase reads another
\* file than Validate has checked.
C35_SamePathOnly ==
    (confPc = "keyring" /\ loaded.err = NoErr) =>
        LET plain == TrimSpace(loaded.cfg["controller.keyring_passphrase_plain"])
            path == loaded.cfg["controller.keyring_passphrase_file"]
        IN  /\ ~(plain # "" /\ TrimSpace(path) # "")
            /\ plain # "" => (~krParams.err /\ krParams.pass = plain)
            /\ (plain = "" /\ TrimSpace(path) = "") =>
                  (~krParams.err /\ krParams.pass = "")
            /\ (TrimSpace(path) # "" /\ TrimSpace(path) = path) =>
                  (~krParams.err /\ krParams.pass = "secret")

C35_Witness ==
    /\ confPc = "keyring"
    /\ loaded.err = NoErr
    /\ loaded.cfg["controller.keyring_passphrase_file"] = "/pw "
    /\ fileReads = <<"config.toml", "/pw ", "/pw">>
    /\ krParams.err

\* The argument handling has returned without an error.
ArgResolved == pc # "start" /\ "ParseArgs" \notin failed

\* C36 as stated: a non-blank flag together with a positional argument is
\* an error, neither of them is an error, otherwise the trimmed value of
\* the one supplied is returned, and a value returned without an error is
\* not the empty string.
C36_Original ==
    pc # "start" =>
        LET f == TrimSpace(flagValue) IN
        /\ (f # "" /\ Len(args) > 0) => ~ArgResolved
        /\ (f = "" /\ Len(args) = 0) => ~ArgResolved
        /\ ArgResolved =>
              /\ argValue = IF f # "" THEN f ELSE TrimSpace(args[1])
              /\ argValue # ""

\* What holds: the same, except that a blank positional argument given
\* without a flag is returned as the empty string, without an error.
C36_ExceptBlankPositional ==
    pc # "start" =>
        LET f == TrimSpace(flagValue) IN
        /\ (f # "" /\ Len(args) > 0) => ~ArgResolved
        /\ (f = "" /\ Len(args) = 0) => ~ArgResolved
        /\ ArgResolved =>
              /\ argValue = IF f # "" THEN f ELSE TrimSpace(args[1])
              /\ argValue = "" <=> (f = "" /\ args = <<" ">>)

C36_Witness ==
    /\ cmd = "status"
    /\ TrimSpace(flagValue) = ""
    /\ args = <<" ">>
    /\ ArgResolved
    /\ argValue = ""
    /\ "GetAction" \in Calls

\* This invocation of download has got past os.MkdirAll.
PastMkdir ==
    /\ cmd = "download"
    /\ pc \notin {"start", "loadConfig", "mkdir"}
    /\ failed \cap {"ParseArgs", "LoadConfig", "MkdirAll"} = {}

\* C37: download creates the output directory in a step at which the
\* configuration has loaded, no client has been constructed and no call
\* has been made; no client is constructed and no call is made before
\* that step; and the directory, once created, stays: an invocation that
\* fails after the step ends with its diagnostic and the directory on disk.
C37_MkdirOrder ==
    /\ [](PastMkdir => outDir \in dirs)
    /\ []((cmd = "download" /\ ~PastMkdir) => (opened = {} /\ krOpens = 0 /\ log = <<>>))
    /\ [][(dirs' # dirs) =>
            (/\ cmd = "download"
             /\ "LoadConfig" \notin failed
             /\ ctxSet
             /\ opened = {} /\ krOpens = 0 /\ log = <<>>
             /\ (PastMkdir)')]_vars
    /\ [][(outDir \in dirs) => (outDir \in dirs')]_vars

C37_Witness ==
    /\ run = 1
    /\ cmd = "download"
    /\ pc = "done"
    /\ "Download" \in failed
    /\ exitCode = 1
    /\ stdout = <<>>
    /\ outDir \in dirs

\* C38: the position of a repeatReader is always between 0 and the length
\* of its data, both included; a repeatReader without data returns 0 bytes
\* and end of input on every Read, delivers nothing, and its position
\* stays where it was.
C38_ReaderPosition ==
    /\ rdPos \in 0..Len(rdData)
    /\ (~rdNil /\ rdData = <<>>) =>
          /\ rdPos = 0
          /\ rdOut = <<>>
          /\ rdLast # NoRead => (rdLast.n = 0 /\ rdLast.err = "EOF")
    /\ (~rdNil /\ rdData # <<>>) => rdLast.err = ""

C38_Witness ==
    /\ ~rdNil
    /\ rdData = <<>>
    /\ rdLast = [k |-> 3, n |-> 0, err |-> "EOF"]
    /\ rdPos = 0

\* parseGasPrices has been applied to the configured value.
GasParsed == icaPc \in {"new", "built"} \/ (icaPc = "failed" /\ icaErr \in {"gas_prices", "inner"})

\* C39: a blank value gives the price zero with the empty denomination and
\* no error; a value of one coin gives that coin's amount and denomination,
\* blanks around it ignored; a value of two coins is an error; and on an
\* error of parseGasPrices NewICAController has failed with no inner
\* controller created and no fee configured.
C39_ParseGasPrices ==
    GasParsed =>
        /\ gasPrices \in {"", " "} =>
              (icaErr # "gas_prices" /\ fee = [price |-> "0", denom |-> ""])
        /\ gasPrices \in {"0.025ulume", " 0.025ulume "} =>
              (icaErr # "gas_prices" /\ fee = [price |-> "0.025", denom |-> "ulume"])
        /\ gasPrices = "0.025ulume,0.1uatom" => icaErr = "gas_prices"
        /\ icaErr = "gas_prices" =>
              /\ icaPc = "failed"
              /\ fee = NoFee
              /\ innerLog = <<>>
              /\ \A i \in 1..Len(rets) : rets[i].recv # "live"
        /\ (innerLog # <<>> /\ innerLog[1] = "NewController") => fee # NoFee

C39_Witness ==
    /\ gasPrices = "0.025ulume,0.1uatom"
    /\ nilArg = ""
    /\ icaPc = "failed"
    /\ icaErr = "gas_prices"
    /\ innerLog = <<>>

\* C40: every call made on the nil Controller or on a Controller without
\* inner controller returned without reaching the inner controller:
\* EnsureICAAddress, ICAAddress, SendRequestAction and SendApproveAction
\* the not-initialized error, Close no error, OwnerAddress the empty
\* string, AppPubkey nothing.  The inner controller has seen its
\* construction and the calls made on the built Controller, nothing else.
C40_UninitializedSafe ==
    /\ \A i \in 1..Len(rets) :
          rets[i].recv \in {"nil", "zero"} =>
             LET m == rets[i].method
                 r == rets[i].ret
             IN  /\ m \in {"EnsureICAAddress", "ICAAddress", "SendRequestAction",
                            "SendApproveAction"} => r.err = "not initialized"
                 /\ m = "Close" => r.err = ""
                 /\ m = "OwnerAddress" => (r.value = "" /\ r.err = "")
                 /\ m = "AppPubkey" => (r.value = "nil" /\ r.err = "")
    /\ Len(innerLog) =
          (IF GasParsed /\ icaErr # "gas_prices" /\ icaPc # "new" THEN 1 ELSE 0)
          + Cardinality({i \in 1..Len(rets) : rets[i].recv = "live"})

C40_Witness ==
    /\ icaPc = "built"
    /\ Len(rets) = 2
    /\ rets[1] = [recv |-> "zero", method |-> "SendApproveAction",
                   ret |-> [value |-> "", err |-> "not initialized"]]
    /\ rets[2].recv = "nil"
    /\ rets[2].method = "Close"
    /\ innerLog = <<"NewController">>

====
